---- MODULE Spec2Model ----
(***************************************************************************)
(* A model of the ELF symbol table of lld (SymbolTable.cpp as carried in   *)
(* src/COFF/Driver.h, lines 180-794): the name index, the symbol           *)
(* envelopes, the input registry, the precedence rules of the add*         *)
(* operations, lazy pull-in, --wrap and the policy passes.                 *)
(*                                                                         *)
(* The operations are operators over a table record T (the fields of       *)
(* SymbolTable plus the diagnostics emitted so far); an action applies one *)
(* public operation, nested calls included, to the current table.          *)
(***************************************************************************)
EXTENDS Integers, Sequences, FiniteSets, TLC

VARIABLES Symtab, SymVector, ArchiveFiles, LazyObjectFiles, SharedFiles, BitcodeFiles, ObjectFiles, SoNames, Fetched, IsUsed, Diags, NamesSeen, Crashed, Config, log, hist, opsLeft

vars == <<Symtab, SymVector, ArchiveFiles, LazyObjectFiles, SharedFiles, BitcodeFiles, ObjectFiles, SoNames, Fetched, IsUsed, Diags, NamesSeen, Crashed, Config, log, hist, opsLeft>>

(***************************************************************************)
(* ELF constants used by the code.                                         *)
(***************************************************************************)
STB_GLOBAL == 1
STB_WEAK == 2
STV_DEFAULT == 0
STV_INTERNAL == 1
STV_HIDDEN == 2
STV_PROTECTED == 3
STT_NOTYPE == 0
STT_OBJECT == 1
STT_TLS == 6
UnknownType == 255
VER_NDX_LOCAL == 0
VER_NDX_GLOBAL == 1
VERSYM_HIDDEN == 32768
FirstVersionIndex == 2
Uint16 == 65536

\* The null InputFile pointer, the name of no symbol, the body of a fresh envelope.
NoFile == "(internal)"
NoName == <<>>
NullBody == [kind |-> "null", Name |-> NoName, File |-> NoFile, Member |-> NoFile, Type |-> UnknownType, StOther |-> 0, Size |-> 0, Alignment |-> 0]

\* Names are sequences of characters (StringRef).
Max(a, b) == IF a >= b THEN a ELSE b
Min(a, b) == IF a <= b THEN a ELSE b

(***************************************************************************)
(* The table record of the current state.                                  *)
(***************************************************************************)
Table == [Symtab |-> Symtab, SymVector |-> SymVector, ArchiveFiles |-> ArchiveFiles, LazyObjectFiles |-> LazyObjectFiles, SharedFiles |-> SharedFiles, BitcodeFiles |-> BitcodeFiles, ObjectFiles |-> ObjectFiles, SoNames |-> SoNames, Fetched |-> Fetched, IsUsed |-> IsUsed, Diags |-> Diags, NamesSeen |-> NamesSeen, Crashed |-> Crashed, ub |-> "crash"]

EmptyTable == [Symtab |-> << >>, SymVector |-> << >>, ArchiveFiles |-> << >>, LazyObjectFiles |-> << >>, SharedFiles |-> << >>, BitcodeFiles |-> << >>, ObjectFiles |-> << >>, SoNames |-> {}, Fetched |-> {}, IsUsed |-> {}, Diags |-> << >>, NamesSeen |-> {}, Crashed |-> FALSE, ub |-> "crash"]

\* The diagnostic sink: error() and warning() append a message and return.
Msg(sev, kind, name, f1, f2, ver) == [sev |-> sev, kind |-> kind, Name |-> name, File1 |-> f1, File2 |-> f2, Version |-> ver]

error(T, kind, name, f1, f2, ver) == [T EXCEPT !.Diags = Append(@, Msg("error", kind, name, f1, f2, ver))]

warning(T, kind, name, f1, f2, ver) == [T EXCEPT !.Diags = Append(@, Msg("warning", kind, name, f1, f2, ver))]

\* Symbol accessors: Symtab holds 0-based indices into SymVector.
Sym(T, S) == T.SymVector[S + 1]
body(T, S) == Sym(T, S).Body
isWeak(T, S) == Sym(T, S).Binding = STB_WEAK
isLazy(B) == B.kind \in {"LazyArchive", "LazyObject"}
isUndefined(B) == B.kind = "Undefined"
isShared(B) == B.kind = "Shared"
isCommon(B) == B.kind = "Common"
isDefined(B) == B.kind \in {"Regular", "Common", "Shared", "Bitcode", "Synthetic"}
isTls(B) == B.Type = STT_TLS
SetBinding(T, S, b) == [T EXCEPT !.SymVector[S + 1].Binding = b]
replaceBody(T, S, B) == [T EXCEPT !.SymVector[S + 1].Body = B]

(***************************************************************************)
(* getMinVisibility, getVersionId and the two insert() overloads.          *)
(***************************************************************************)
\* getMinVisibility as the plain numeric minimum.
getMinVisibilityNumeric(VA, VB) == Min(VA, VB)

\* getMinVisibility: a non-default visibility beats STV_DEFAULT, else the lower value.
getMinVisibility(VA, VB) == IF VA = STV_DEFAULT THEN VB ELSE IF VB = STV_DEFAULT THEN VA ELSE Min(VA, VB)

\* StringRef::find('@'): the first position (0-based) of the character, or npos.
npos == -1
FindChar(Name, c) == IF \E i \in 1..Len(Name) : Name[i] = c THEN (CHOOSE i \in 1..Len(Name) : Name[i] = c /\ \A j \in 1..(i - 1) : Name[j] # c) - 1 ELSE npos
drop_front(Name, n) == SubSeq(Name, n + 1, Len(Name))
startswith(Name, c) == Len(Name) > 0 /\ Name[1] = c

\* The loop over Config->SymbolVersions: the index of the first version named
\* Version, counted from 2; 0 when there is none.
RECURSIVE VersionLoop(_, _, _)
VersionLoop(Versions, Version, I) == IF Versions = << >> THEN 0 ELSE IF Head(Versions).Name = Version THEN I ELSE VersionLoop(Tail(Versions), Version, I + 1)

\* versionIdOf without the hidden bit for a non-default version.
versionIdOfNeverHidden(Default, Version, I) ==
  IF I # 0
    THEN [id |-> I % Uint16, undefinedVersion |-> FALSE, Version |-> Version]
    ELSE [id |-> 0, undefinedVersion |-> TRUE, Version |-> Version]

\* Returns the id and whether the "undefined version" error was reported.
versionIdOf(Default, Version, I) ==
  IF I # 0
    THEN [id |-> (IF Default THEN I ELSE I + VERSYM_HIDDEN) % Uint16, undefinedVersion |-> FALSE, Version |-> Version]
    ELSE [id |-> 0, undefinedVersion |-> TRUE, Version |-> Version]

versionOf(Default, Version) == versionIdOf(Default, Version, VersionLoop(Config.SymbolVersions, Version, FirstVersionIndex))

versionAfter(V0) == IF startswith(V0, "@") THEN versionOf(TRUE, drop_front(V0, 1)) ELSE versionOf(FALSE, V0)

getVersionId(Name) ==
  IF FindChar(Name, "@") = npos
    THEN [id |-> IF Config.VersionScriptGlobalByDefault THEN VER_NDX_GLOBAL ELSE VER_NDX_LOCAL, undefinedVersion |-> FALSE, Version |-> NoName]
    ELSE versionAfter(drop_front(Name, FindChar(Name, "@") + 1))

\* The envelope insert(StringRef) creates.
newSymbol(V) == [Binding |-> STB_WEAK, Visibility |-> STV_DEFAULT, IsUsedInRegularObj |-> FALSE, ExportDynamic |-> FALSE, VersionId |-> V.id, VersionedName |-> (V.id # VER_NDX_LOCAL /\ V.id # VER_NDX_GLOBAL), Body |-> NullBody]

insertNew(T, Name, NumSyms, V) ==
  [T |-> [T EXCEPT !.Symtab = (Name :> NumSyms) @@ @,
                   !.SymVector = Append(@, newSymbol(V)),
                   !.Diags = IF V.undefinedVersion THEN Append(@, Msg("error", "undefined version", Name, NoFile, NoFile, V.Version)) ELSE @],
   S |-> NumSyms, WasInserted |-> TRUE]

\* insertSeen with the lookup skipped: an envelope is created each time.
insertSeenAlwaysNew(T, Name) == insertNew(T, Name, Len(T.SymVector), getVersionId(Name))

\* insertSeen deriving the version id from the name on every call.
insertSeenRenumbers(T, Name) ==
  IF Name \in DOMAIN T.Symtab
    THEN [T |-> [T EXCEPT !.SymVector[T.Symtab[Name] + 1].VersionId = getVersionId(Name).id], S |-> T.Symtab[Name], WasInserted |-> FALSE]
    ELSE insertNew(T, Name, Len(T.SymVector), getVersionId(Name))

\* insert(StringRef): find an existing symbol or create and insert a new one.
\* NamesSeen collects the names insert() was called with.
insertSeen(T, Name) ==
  IF Name \in DOMAIN T.Symtab
    THEN [T |-> T, S |-> T.Symtab[Name], WasInserted |-> FALSE]
    ELSE insertNew(T, Name, Len(T.SymVector), getVersionId(Name))

insert(T, Name) == insertSeen([T EXCEPT !.NamesSeen = @ \cup {Name}], Name)

\* SymbolBody::getSourceFile: the file of a regular, shared, bitcode or
\* undefined body; null for the other kinds.
getSourceFile(B) == IF B.kind \in {"Regular", "Shared", "Bitcode", "Undefined"} THEN B.File ELSE NoFile

\* mergeAttrs reporting the TLS mismatch only for an incoming TLS record.
mergeAttrsTlsOneWay(r, Type, Visibility, CanOmitFromDynSym, IsUsedInRegularObj, File) ==
  [T |-> [r.T EXCEPT !.SymVector[r.S + 1].Visibility = getMinVisibility(@, Visibility),
                     !.SymVector[r.S + 1].ExportDynamic = IF ~CanOmitFromDynSym /\ (Config.Shared \/ Config.ExportDynamic) THEN TRUE ELSE @,
                     !.SymVector[r.S + 1].IsUsedInRegularObj = IF IsUsedInRegularObj THEN TRUE ELSE @,
                     !.Diags = IF ~r.WasInserted /\ body(r.T, r.S).Type # UnknownType /\ Type = STT_TLS /\ ~isTls(body(r.T, r.S))
                                 THEN Append(@, Msg("error", "TLS attribute mismatch", body(r.T, r.S).Name, getSourceFile(body(r.T, r.S)), File, NoName))
                                 ELSE @],
   S |-> r.S, WasInserted |-> r.WasInserted]

\* mergeAttrs setting IsUsedInRegularObj whatever the caller passes.
mergeAttrsAlwaysUsed(r, Type, Visibility, CanOmitFromDynSym, IsUsedInRegularObj, File) ==
  [T |-> [r.T EXCEPT !.SymVector[r.S + 1].Visibility = getMinVisibility(@, Visibility),
                     !.SymVector[r.S + 1].ExportDynamic = IF ~CanOmitFromDynSym /\ (Config.Shared \/ Config.ExportDynamic) THEN TRUE ELSE @,
                     !.SymVector[r.S + 1].IsUsedInRegularObj = TRUE,
                     !.Diags = IF ~r.WasInserted /\ body(r.T, r.S).Type # UnknownType /\ ((Type = STT_TLS) # isTls(body(r.T, r.S)))
                                 THEN Append(@, Msg("error", "TLS attribute mismatch", body(r.T, r.S).Name, getSourceFile(body(r.T, r.S)), File, NoName))
                                 ELSE @],
   S |-> r.S, WasInserted |-> r.WasInserted]

\* Lines 405-414 of insert(Name, Type, ...), applied to the result r of insert(Name).
mergeAttrs(r, Type, Visibility, CanOmitFromDynSym, IsUsedInRegularObj, File) ==
  [T |-> [r.T EXCEPT !.SymVector[r.S + 1].Visibility = getMinVisibility(@, Visibility),
                     !.SymVector[r.S + 1].ExportDynamic = IF ~CanOmitFromDynSym /\ (Config.Shared \/ Config.ExportDynamic) THEN TRUE ELSE @,
                     !.SymVector[r.S + 1].IsUsedInRegularObj = IF IsUsedInRegularObj THEN TRUE ELSE @,
                     !.Diags = IF ~r.WasInserted /\ body(r.T, r.S).Type # UnknownType /\ ((Type = STT_TLS) # isTls(body(r.T, r.S)))
                                 THEN Append(@, Msg("error", "TLS attribute mismatch", body(r.T, r.S).Name, getSourceFile(body(r.T, r.S)), File, NoName))
                                 ELSE @],
   S |-> r.S, WasInserted |-> r.WasInserted]

\* insert(Name, Type, Visibility, CanOmitFromDynSym, IsUsedInRegularObj, File)
insertAttrs(T, Name, Type, Visibility, CanOmitFromDynSym, IsUsedInRegularObj, File) == mergeAttrs(insert(T, Name), Type, Visibility, CanOmitFromDynSym, IsUsedInRegularObj, File)

(***************************************************************************)
(* The precedence verdicts.                                                *)
(***************************************************************************)
\* compareDefined where a strong definition does not displace a weak one.
compareDefinedNoUpgrade(T, S, WasInserted, Binding) ==
  IF WasInserted THEN 1
  ELSE IF isLazy(body(T, S)) \/ isUndefined(body(T, S)) \/ isShared(body(T, S)) THEN 1
  ELSE IF Binding = STB_WEAK THEN -1
  ELSE 0

\* compareDefined where the weakness of the envelope is tested first.
compareDefinedWeakFirst(T, S, WasInserted, Binding) ==
  IF WasInserted THEN 1
  ELSE IF isLazy(body(T, S)) \/ isUndefined(body(T, S)) \/ isShared(body(T, S)) THEN 1
  ELSE IF isWeak(T, S) THEN 1
  ELSE IF Binding = STB_WEAK THEN -1
  ELSE 0

compareDefined(T, S, WasInserted, Binding) ==
  IF WasInserted THEN 1
  ELSE IF isLazy(body(T, S)) \/ isUndefined(body(T, S)) \/ isShared(body(T, S)) THEN 1
  ELSE IF Binding = STB_WEAK THEN -1
  ELSE IF isWeak(T, S) THEN 1
  ELSE 0

\* nonCommonVerdict without the branch for a Common payload: two strong
\* symbols always conflict.
nonCommonVerdictNoCommonCase(T, S, Binding, Cmp) ==
  IF Cmp # 0
    THEN [T |-> IF Cmp > 0 THEN SetBinding(T, S, Binding) ELSE T, Cmp |-> Cmp]
    ELSE [T |-> T, Cmp |-> 0]

\* Lines 487-498, given the verdict Cmp of compareDefined: the verdict and the
\* table (the binding is updated when the new symbol wins by compareDefined;
\* the warn-common warning may be emitted).
nonCommonVerdict(T, S, Binding, Cmp) ==
  IF Cmp # 0
    THEN [T |-> IF Cmp > 0 THEN SetBinding(T, S, Binding) ELSE T, Cmp |-> Cmp]
    ELSE IF isCommon(body(T, S))
      THEN [T |-> IF Config.WarnCommon THEN warning(T, "common is overridden", body(T, S).Name, NoFile, NoFile, NoName) ELSE T, Cmp |-> 1]
      ELSE [T |-> T, Cmp |-> 0]

compareDefinedNonCommon(T, S, WasInserted, Binding) == nonCommonVerdict(T, S, Binding, compareDefined(T, S, WasInserted, Binding))

(***************************************************************************)
(* The insertion operations that never fetch a file.  Each is the code's   *)
(* function applied to the result r of its insert() call.                  *)
(***************************************************************************)
MkBody(kind, Name, File, Member, Type, StOther, Size, Alignment) == [kind |-> kind, Name |-> Name, File |-> File, Member |-> Member, Type |-> Type, StOther |-> StOther, Size |-> Size, Alignment |-> Alignment]

\* StOther & 3
VisibilityOf(StOther) == StOther % 4

\* addCommon where two equivalent Common records are not merged.
commonVerdictNoMerge(T, S, Cmp, N, Size, Alignment, Binding, StOther, Type) ==
  IF Cmp > 0 THEN replaceBody(SetBinding(T, S, Binding), S, MkBody("Common", N, NoFile, NoFile, Type, StOther, Size, Alignment)) ELSE T

\* addCommon where the later of two equivalent Common records sets size and alignment.
commonVerdictLastWins(T, S, Cmp, N, Size, Alignment, Binding, StOther, Type) ==
  IF Cmp > 0 THEN replaceBody(SetBinding(T, S, Binding), S, MkBody("Common", N, NoFile, NoFile, Type, StOther, Size, Alignment))
  ELSE IF Cmp = 0 /\ isCommon(body(T, S)) THEN [T EXCEPT !.SymVector[S + 1].Body.Size = Size, !.SymVector[S + 1].Body.Alignment = Alignment]
  ELSE T

\* Lines 511-530 of addCommon, given the verdict Cmp.
commonVerdict(T, S, Cmp, N, Size, Alignment, Binding, StOther, Type) ==
  IF Cmp > 0 THEN replaceBody(SetBinding(T, S, Binding), S, MkBody("Common", N, NoFile, NoFile, Type, StOther, Size, Alignment))
  ELSE IF Cmp = 0 THEN
    IF ~isCommon(body(T, S))
      THEN (IF Config.WarnCommon THEN warning(T, "common is overridden", body(T, S).Name, NoFile, NoFile, NoName) ELSE T)
      ELSE [T EXCEPT !.SymVector[S + 1].Body.Size = Max(@, Size),
                     !.SymVector[S + 1].Body.Alignment = Max(@, Alignment),
                     !.Diags = IF Config.WarnCommon THEN Append(@, Msg("warning", "multiple common", body(T, S).Name, NoFile, NoFile, NoName)) ELSE @]
  ELSE T

addCommonInserted(r, N, Size, Alignment, Binding, StOther, Type) == commonVerdict(r.T, r.S, compareDefined(r.T, r.S, r.WasInserted, Binding), N, Size, Alignment, Binding, StOther, Type)

addCommon(T, N, Size, Alignment, Binding, StOther, Type, File) ==
  IF T.Crashed THEN T
  ELSE addCommonInserted(insertAttrs(T, N, Type, VisibilityOf(StOther), FALSE, TRUE, File), N, Size, Alignment, Binding, StOther, Type)

\* conflictMsg names the existing body and its file, and the new file.
reportDuplicate(T, Existing, NewFile) ==
  IF Config.AllowMultipleDefinition
    THEN warning(T, "duplicate symbol", Existing.Name, getSourceFile(Existing), NewFile, NoName)
    ELSE error(T, "duplicate symbol", Existing.Name, getSourceFile(Existing), NewFile, NoName)

\* Section->getFile() on line 556: Section is null for a symbol that is in no
\* input section (an absolute symbol), and the call then has undefined
\* behaviour: the process dies, or a junk pointer is reported as the file.
JunkFile == "?"
reportDuplicateOfSection(T, Existing, Section) ==
  IF Section # NoFile THEN reportDuplicate(T, Existing, Section)
  ELSE IF T.ub = "crash" THEN [T EXCEPT !.Crashed = TRUE]
  ELSE reportDuplicate(T, Existing, JunkFile)

\* "if (Cmp > 0) replaceBody(...); else if (Cmp == 0) reportDuplicate(...)" of
\* addRegular(Name, Binding, StOther), addSynthetic and addBitcode.
defineOrReport(c, S, NewBody, NewFile) ==
  IF c.Cmp > 0 THEN replaceBody(c.T, S, NewBody)
  ELSE IF c.Cmp = 0 THEN reportDuplicate(c.T, body(c.T, S), NewFile)
  ELSE c.T

\* The same lines of addRegular(Name, Sym, Section).
defineOrReportOfSection(c, S, NewBody, Section) ==
  IF c.Cmp > 0 THEN replaceBody(c.T, S, NewBody)
  ELSE IF c.Cmp = 0 THEN reportDuplicateOfSection(c.T, body(c.T, S), Section)
  ELSE c.T

\* addRegular(Name, const Elf_Sym &Sym, InputSectionBase *Section); Section is
\* the file of the section, or NoFile for a null section.
addRegularInserted(r, Name, ESym, Section) == defineOrReportOfSection(compareDefinedNonCommon(r.T, r.S, r.WasInserted, ESym.Binding), r.S, MkBody("Regular", Name, Section, NoFile, ESym.Type, ESym.StOther, ESym.Size, 0), Section)

addRegular(T, Name, ESym, Section) ==
  IF T.Crashed THEN T
  ELSE addRegularInserted(insertAttrs(T, Name, ESym.Type, VisibilityOf(ESym.StOther), FALSE, TRUE, Section), Name, ESym, Section)

\* addRegular(Name, Binding, StOther)
addRegularBindingInserted(r, Name, Binding, StOther) == defineOrReport(compareDefinedNonCommon(r.T, r.S, r.WasInserted, Binding), r.S, MkBody("Regular", Name, NoFile, NoFile, STT_NOTYPE, StOther, 0, 0), NoFile)

addRegularBinding(T, Name, Binding, StOther) ==
  IF T.Crashed THEN T
  ELSE addRegularBindingInserted(insertAttrs(T, Name, STT_NOTYPE, VisibilityOf(StOther), FALSE, TRUE, NoFile), Name, Binding, StOther)

addSyntheticInserted(r, N) == defineOrReport(compareDefinedNonCommon(r.T, r.S, r.WasInserted, STB_GLOBAL), r.S, MkBody("Synthetic", N, NoFile, NoFile, STT_NOTYPE, STV_HIDDEN, 0, 0), NoFile)

addSynthetic(T, N) ==
  IF T.Crashed THEN T
  ELSE addSyntheticInserted(insertAttrs(T, N, STT_NOTYPE, STV_HIDDEN, FALSE, TRUE, NoFile), N)

\* addShared where a later shared record displaces an earlier one.
addSharedInsertedLastWins(r, F, Name, ESym) ==
  IF r.WasInserted \/ isUndefined(body(r.T, r.S)) \/ isShared(body(r.T, r.S))
    THEN [r.T EXCEPT !.SymVector[r.S + 1].ExportDynamic = IF VisibilityOf(ESym.StOther) = STV_DEFAULT THEN TRUE ELSE @,
                     !.SymVector[r.S + 1].Body = MkBody("Shared", Name, F, NoFile, ESym.Type, ESym.StOther, ESym.Size, 0),
                     !.IsUsed = IF ~isWeak(r.T, r.S) THEN @ \cup {F} ELSE @]
    ELSE [r.T EXCEPT !.SymVector[r.S + 1].ExportDynamic = IF VisibilityOf(ESym.StOther) = STV_DEFAULT THEN TRUE ELSE @]

\* Lines 606-612 of addShared.
addSharedInserted(r, F, Name, ESym) ==
  IF r.WasInserted \/ isUndefined(body(r.T, r.S))
    THEN [r.T EXCEPT !.SymVector[r.S + 1].ExportDynamic = IF VisibilityOf(ESym.StOther) = STV_DEFAULT THEN TRUE ELSE @,
                     !.SymVector[r.S + 1].Body = MkBody("Shared", Name, F, NoFile, ESym.Type, ESym.StOther, ESym.Size, 0),
                     !.IsUsed = IF ~isWeak(r.T, r.S) THEN @ \cup {F} ELSE @]
    ELSE [r.T EXCEPT !.SymVector[r.S + 1].ExportDynamic = IF VisibilityOf(ESym.StOther) = STV_DEFAULT THEN TRUE ELSE @]

addShared(T, F, Name, ESym) ==
  IF T.Crashed THEN T
  ELSE addSharedInserted(insertAttrs(T, Name, ESym.Type, STV_DEFAULT, TRUE, FALSE, F), F, Name, ESym)

addBitcodeInserted(r, Name, IsWeak, StOther, Type, F) == defineOrReport(compareDefinedNonCommon(r.T, r.S, r.WasInserted, IF IsWeak THEN STB_WEAK ELSE STB_GLOBAL), r.S, MkBody("Bitcode", Name, F, NoFile, Type, StOther, 0, 0), F)

addBitcode(T, Name, IsWeak, StOther, Type, CanOmitFromDynSym, F) ==
  IF T.Crashed THEN T
  ELSE addBitcodeInserted(insertAttrs(T, Name, Type, VisibilityOf(StOther), CanOmitFromDynSym, FALSE, F), Name, IsWeak, StOther, Type, F)

addAbsolute(T, Name, Visibility) == addRegularBinding(T, Name, STB_GLOBAL, Visibility)

\* find(Name): whether the index holds the name (the body is body(T, Symtab[Name])).
find(T, Name) == Name \in DOMAIN T.Symtab

addIgnored(T, Name, Visibility) == IF ~find(T, Name) THEN T ELSE addAbsolute(T, Name, Visibility)

(***************************************************************************)
(* The input files.  A file is known to the table by the records its       *)
(* parser delivers: an object or bitcode file by its symbols, an archive   *)
(* by its symbol index (name, member), a lazy object by the object it      *)
(* holds, a shared file by its soname and its defined symbols.             *)
(***************************************************************************)
NameX == <<"x">>
NameY == <<"y">>

ESymOf(Binding, Type, StOther, Size) == [Binding |-> Binding, Type |-> Type, StOther |-> StOther, Size |-> Size]

\* One symbol record of a file: op is the kind of record; Abs marks a defined
\* symbol that is in no section.
Rec(op, Name, Binding, Abs) == [op |-> op, Name |-> Name, Binding |-> Binding, Type |-> STT_NOTYPE, StOther |-> STV_DEFAULT, Size |-> 0, Alignment |-> 0, Abs |-> Abs, CanOmit |-> FALSE]

FileRec(kind, SoName, Syms, Index, Content) == [kind |-> kind, EKind |-> "ELF64LE", EMachine |-> "x86_64", SoName |-> SoName, Syms |-> Syms, Index |-> Index, Content |-> Content]

ASym(Name, Member) == [Name |-> Name, Member |-> Member]

Files ==
  [f \in {"F1", "F2", "O", "OW", "A1", "M1", "A2", "M2", "L1", "L1.o", "S1", "S2", "S3", "S4", "B1", "MIPS", "AW", "MW", "A3", "M3", "M4", "AM"} |->
    CASE f = "F1" -> FileRec("obj", "", <<Rec("regular", NameX, STB_GLOBAL, FALSE)>>, << >>, NoFile)
      [] f = "F2" -> FileRec("obj", "", <<Rec("regular", NameX, STB_WEAK, FALSE), Rec("undef", NameY, STB_GLOBAL, FALSE)>>, << >>, NoFile)
      [] f = "O" -> FileRec("obj", "", <<Rec("undef", NameX, STB_GLOBAL, FALSE)>>, << >>, NoFile)
      [] f = "OW" -> FileRec("obj", "", <<Rec("undef", NameX, STB_WEAK, FALSE)>>, << >>, NoFile)
      [] f = "A1" -> FileRec("archive", "", << >>, <<ASym(NameX, "M1"), ASym(NameY, "M1")>>, NoFile)
      [] f = "M1" -> FileRec("obj", "", <<Rec("regular", NameX, STB_GLOBAL, FALSE), Rec("regular", NameY, STB_GLOBAL, FALSE)>>, << >>, NoFile)
      [] f = "A2" -> FileRec("archive", "", << >>, <<ASym(NameX, "M2")>>, NoFile)
      [] f = "M2" -> FileRec("obj", "", <<Rec("regular", NameX, STB_GLOBAL, FALSE)>>, << >>, NoFile)
      [] f = "L1" -> FileRec("lazyobj", "", << >>, << >>, "L1.o")
      [] f = "L1.o" -> FileRec("obj", "", <<Rec("regular", NameX, STB_GLOBAL, FALSE)>>, << >>, NoFile)
      [] f = "S1" -> FileRec("shared", "libz.so.1", <<Rec("shared", NameX, STB_GLOBAL, FALSE)>>, << >>, NoFile)
      [] f = "S2" -> FileRec("shared", "libz.so.1", <<Rec("shared", NameX, STB_GLOBAL, FALSE), Rec("shared", NameY, STB_GLOBAL, FALSE)>>, << >>, NoFile)
      [] f = "S3" -> FileRec("shared", "libw.so.1", <<Rec("shared", NameY, STB_GLOBAL, FALSE)>>, << >>, NoFile)
      [] f = "S4" -> [FileRec("shared", "libz.so.1", <<Rec("shared", NameY, STB_GLOBAL, FALSE)>>, << >>, NoFile) EXCEPT !.EMachine = "mips"]
      [] f = "B1" -> FileRec("bitcode", "", <<Rec("bitcode", NameX, STB_GLOBAL, FALSE)>>, << >>, NoFile)
      [] f = "MIPS" -> [FileRec("obj", "", <<Rec("regular", NameX, STB_GLOBAL, FALSE)>>, << >>, NoFile) EXCEPT !.EMachine = "mips"]
      [] f = "AW" -> FileRec("archive", "", << >>, <<ASym(<<"_", "_", "w", "r", "a", "p", "_", "x">>, "MW")>>, NoFile)
      [] f = "MW" -> FileRec("obj", "", <<Rec("regular", <<"_", "_", "w", "r", "a", "p", "_", "x">>, STB_GLOBAL, FALSE), Rec("undef", <<"_", "_", "r", "e", "a", "l", "_", "x">>, STB_GLOBAL, FALSE)>>, << >>, NoFile)
      [] f = "A3" -> FileRec("archive", "", << >>, <<ASym(NameX, "M3"), ASym(NameY, "M4")>>, NoFile)
      [] f = "M3" -> FileRec("obj", "", <<Rec("undef", NameY, STB_GLOBAL, FALSE), Rec("regular", NameX, STB_GLOBAL, FALSE)>>, << >>, NoFile)
      [] f = "M4" -> FileRec("obj", "", <<Rec("undef", NameX, STB_GLOBAL, FALSE), Rec("regular", NameY, STB_GLOBAL, FALSE)>>, << >>, NoFile)
      [] f = "AM" -> FileRec("archive", "", << >>, <<ASym(NameX, "MIPS"), ASym(NameY, "MIPS")>>, NoFile)]

isBitcodeFile(F) == F \in DOMAIN Files /\ Files[F].kind = "bitcode"

\* ArchiveFile::getMember / LazyObjectFile::getBuffer: the buffer of the
\* member, once; an empty buffer (NoFile) for a member already handed out.
getMember(T, Member) == IF Member \in T.Fetched THEN [T |-> T, File |-> NoFile] ELSE [T |-> [T EXCEPT !.Fetched = @ \cup {Member}], File |-> Member]

\* Lazy::getFile: the object file of the member of a lazy body, or null.
Lazy_getFile(T, B) == getMember(T, B.Member)

\* isCompatible comparing the machine only.
isCompatibleMachineOnly(F) == IF Files[F].kind \notin {"obj", "shared"} THEN TRUE ELSE Files[F].EMachine = Config.EMachine

\* isCompatible: files that are not ELF objects or shared files pass.
isCompatible(F) == IF Files[F].kind \notin {"obj", "shared"} THEN TRUE ELSE Files[F].EKind = Config.EKind /\ Files[F].EMachine = Config.EMachine

(***************************************************************************)
(* addFile and the insertion operations that may fetch a file: the nested  *)
(* recursion addFile -> parse -> add* -> addFile.                          *)
(***************************************************************************)
RECURSIVE addFile(_, _)

\* fetch with the member handed out again once its addFile has returned.
fetchReleasesMember(g) == IF g.File # NoFile THEN [addFile(g.T, g.File) EXCEPT !.Fetched = @ \ {g.File}] ELSE g.T

\* addFile(std::move(F)) when the fetch g yielded a file; nothing otherwise.
fetch(g) == IF g.File # NoFile THEN addFile(g.T, g.File) ELSE g.T

\* Lines 450-455 of addUndefined: a non-weak reference to a shared or lazy body.
strengthen(T, S, Binding) ==
  IF Binding # STB_WEAK
    THEN [T EXCEPT !.SymVector[S + 1].Binding = IF isShared(body(T, S)) \/ isLazy(body(T, S)) THEN Binding ELSE @,
                   !.IsUsed = IF isShared(body(T, S)) THEN @ \cup {body(T, S).File} ELSE @]
    ELSE T

\* fetchOnUndefined without the fetch: a reference never pulls a member in.
fetchOnUndefinedNeverFetches(T, S, Type) ==
  IF isLazy(body(T, S)) /\ isWeak(T, S) THEN [T EXCEPT !.SymVector[S + 1].Body.Type = Type] ELSE T

\* fetchOnUndefined without L->Type = Type: a weak reference leaves the lazy body as it is.
fetchOnUndefinedKeepsType(T, S, Type) ==
  IF isLazy(body(T, S)) /\ ~isWeak(T, S) THEN fetch(Lazy_getFile(T, body(T, S))) ELSE T

\* Lines 456-463 of addUndefined: a lazy body remembers the type of a weak
\* reference, and is fetched by a non-weak one.
fetchOnUndefined(T, S, Type) ==
  IF isLazy(body(T, S))
    THEN IF isWeak(T, S) THEN [T EXCEPT !.SymVector[S + 1].Body.Type = Type] ELSE fetch(Lazy_getFile(T, body(T, S)))
    ELSE T

\* addUndefined returning before the body of a created envelope is installed.
addUndefinedInsertedNoBody(r, Name, Binding, StOther, Type, File) ==
  IF r.WasInserted
    THEN SetBinding(r.T, r.S, Binding)
    ELSE fetchOnUndefined(strengthen(r.T, r.S, Binding), r.S, Type)

\* Lines 442-464 of addUndefined, applied to the result r of insert.
addUndefinedInserted(r, Name, Binding, StOther, Type, File) ==
  IF r.WasInserted
    THEN replaceBody(SetBinding(r.T, r.S, Binding), r.S, MkBody("Undefined", Name, File, NoFile, Type, StOther, 0, 0))
    ELSE fetchOnUndefined(strengthen(r.T, r.S, Binding), r.S, Type)

addUndefined(T, Name, Binding, StOther, Type, CanOmitFromDynSym, File) ==
  IF T.Crashed THEN T
  ELSE addUndefinedInserted(insertAttrs(T, Name, Type, VisibilityOf(StOther), CanOmitFromDynSym, File = NoFile \/ ~isBitcodeFile(File), File), Name, Binding, StOther, Type, File)

\* addUndefined(Name)
addUndefinedName(T, Name) == addUndefined(T, Name, STB_GLOBAL, STV_DEFAULT, 0, FALSE, NoFile)

\* addLazyArchive where a later archive's record displaces an earlier lazy record.
addLazyArchiveLastWins(r, F, ArSym) ==
  IF r.WasInserted \/ isLazy(body(r.T, r.S)) THEN replaceBody(r.T, r.S, MkBody("LazyArchive", ArSym.Name, F, ArSym.Member, UnknownType, 0, 0, 0))
  ELSE IF ~isUndefined(body(r.T, r.S)) THEN r.T
  ELSE IF isWeak(r.T, r.S) THEN replaceBody(r.T, r.S, MkBody("LazyArchive", ArSym.Name, F, ArSym.Member, body(r.T, r.S).Type, 0, 0, 0))
  ELSE fetch(getMember(r.T, ArSym.Member))

addLazyArchiveInserted(r, F, ArSym) ==
  IF r.WasInserted THEN replaceBody(r.T, r.S, MkBody("LazyArchive", ArSym.Name, F, ArSym.Member, UnknownType, 0, 0, 0))
  ELSE IF ~isUndefined(body(r.T, r.S)) THEN r.T
  ELSE IF isWeak(r.T, r.S) THEN replaceBody(r.T, r.S, MkBody("LazyArchive", ArSym.Name, F, ArSym.Member, body(r.T, r.S).Type, 0, 0, 0))
  ELSE fetch(getMember(r.T, ArSym.Member))

addLazyArchive(T, F, ArSym) == IF T.Crashed THEN T ELSE addLazyArchiveInserted(insert(T, ArSym.Name), F, ArSym)

\* addLazyObject without the test that the held body is Undefined.
addLazyObjectInsertedAnyBody(r, Name, Obj) ==
  IF r.WasInserted THEN replaceBody(r.T, r.S, MkBody("LazyObject", Name, Obj, Files[Obj].Content, UnknownType, 0, 0, 0))
  ELSE IF isWeak(r.T, r.S) THEN replaceBody(r.T, r.S, MkBody("LazyObject", Name, Obj, Files[Obj].Content, body(r.T, r.S).Type, 0, 0, 0))
  ELSE fetch(getMember(r.T, Files[Obj].Content))

addLazyObjectInserted(r, Name, Obj) ==
  IF r.WasInserted THEN replaceBody(r.T, r.S, MkBody("LazyObject", Name, Obj, Files[Obj].Content, UnknownType, 0, 0, 0))
  ELSE IF ~isUndefined(body(r.T, r.S)) THEN r.T
  ELSE IF isWeak(r.T, r.S) THEN replaceBody(r.T, r.S, MkBody("LazyObject", Name, Obj, Files[Obj].Content, body(r.T, r.S).Type, 0, 0, 0))
  ELSE fetch(getMember(r.T, Files[Obj].Content))

addLazyObject(T, Name, Obj) == IF T.Crashed THEN T ELSE addLazyObjectInserted(insert(T, Name), Name, Obj)

\* One record of an object, bitcode or shared file, handed to the table.
addRecord(T, F, R) ==
  CASE R.op = "undef" -> addUndefined(T, R.Name, R.Binding, R.StOther, R.Type, R.CanOmit, F)
    [] R.op = "common" -> addCommon(T, R.Name, R.Size, R.Alignment, R.Binding, R.StOther, R.Type, F)
    [] R.op = "regular" -> addRegular(T, R.Name, ESymOf(R.Binding, R.Type, R.StOther, R.Size), IF R.Abs THEN NoFile ELSE F)
    [] R.op = "shared" -> addShared(T, F, R.Name, ESymOf(R.Binding, R.Type, R.StOther, R.Size))
    [] R.op = "bitcode" -> addBitcode(T, R.Name, R.Binding = STB_WEAK, R.StOther, R.Type, R.CanOmit, F)

\* ObjectFile::parse, BitcodeFile::parse, SharedFile::parseRest: each record in turn.
RECURSIVE parseRecords(_, _, _)
parseRecords(T, F, i) == IF i > Len(Files[F].Syms) THEN T ELSE parseRecords(addRecord(T, F, Files[F].Syms[i]), F, i + 1)

\* ArchiveFile::parse: a lazy record per entry of the archive's symbol index.
RECURSIVE parseArchive(_, _, _)
parseArchive(T, F, i) == IF i > Len(Files[F].Index) THEN T ELSE parseArchive(addLazyArchive(T, F, Files[F].Index[i]), F, i + 1)

\* LazyObjectFile::parse: a lazy record per symbol the held object defines.
RECURSIVE parseLazyObject(_, _, _)
parseLazyObject(T, F, i) ==
  IF i > Len(Files[Files[F].Content].Syms) THEN T
  ELSE parseLazyObject(IF Files[Files[F].Content].Syms[i].op = "undef" THEN T ELSE addLazyObject(T, Files[Files[F].Content].Syms[i].Name, F), F, i + 1)

\* addFile without the soname set: every shared file is retained and parsed.
addFileEverySharedFile(T, F) ==
  IF T.Crashed THEN T
  ELSE IF ~isCompatible(F) THEN error(T, "incompatible", NoName, F, IF Config.Emulation = "" THEN Config.FirstElf ELSE Config.Emulation, NoName)
  ELSE CASE Files[F].kind = "archive" -> parseArchive([T EXCEPT !.ArchiveFiles = Append(@, F)], F, 1)
         [] Files[F].kind = "lazyobj" -> parseLazyObject([T EXCEPT !.LazyObjectFiles = Append(@, F)], F, 1)
         [] Files[F].kind = "shared" -> parseRecords([T EXCEPT !.SoNames = @ \cup {Files[F].SoName}, !.SharedFiles = Append(@, F)], F, 1)
         [] Files[F].kind = "bitcode" -> parseRecords([T EXCEPT !.BitcodeFiles = Append(@, F)], F, 1)
         [] Files[F].kind = "obj" -> parseRecords([T EXCEPT !.ObjectFiles = Append(@, F)], F, 1)

addFile(T, F) ==
  IF T.Crashed THEN T
  ELSE IF ~isCompatible(F) THEN error(T, "incompatible", NoName, F, IF Config.Emulation = "" THEN Config.FirstElf ELSE Config.Emulation, NoName)
  ELSE CASE Files[F].kind = "archive" -> parseArchive([T EXCEPT !.ArchiveFiles = Append(@, F)], F, 1)
         [] Files[F].kind = "lazyobj" -> parseLazyObject([T EXCEPT !.LazyObjectFiles = Append(@, F)], F, 1)
         [] Files[F].kind = "shared" -> IF Files[F].SoName \in T.SoNames THEN T ELSE parseRecords([T EXCEPT !.SoNames = @ \cup {Files[F].SoName}, !.SharedFiles = Append(@, F)], F, 1)
         [] Files[F].kind = "bitcode" -> parseRecords([T EXCEPT !.BitcodeFiles = Append(@, F)], F, 1)
         [] Files[F].kind = "obj" -> parseRecords([T EXCEPT !.ObjectFiles = Append(@, F)], F, 1)

(***************************************************************************)
(* --wrap.                                                                 *)
(***************************************************************************)
RealPrefix == <<"_", "_", "r", "e", "a", "l", "_">>
WrapPrefix == <<"_", "_", "w", "r", "a", "p", "_">>

\* wrap with the two memcpy calls in the other order.
wrapBodiesWrapFirst(T, Name) ==
  IF T.Crashed THEN T
  ELSE [T EXCEPT !.SymVector[T.Symtab[RealPrefix \o Name] + 1].Body = body(T, T.Symtab[WrapPrefix \o Name]),
                 !.SymVector[T.Symtab[Name] + 1].Body = body(T, T.Symtab[WrapPrefix \o Name])]

\* wrap as a rotation of the three payloads: __wrap_NAME receives what __real_NAME held.
wrapBodiesRotate(T, Name) ==
  IF T.Crashed THEN T
  ELSE [T EXCEPT !.SymVector[T.Symtab[RealPrefix \o Name] + 1].Body = body(T, T.Symtab[Name]),
                 !.SymVector[T.Symtab[Name] + 1].Body = body(T, T.Symtab[WrapPrefix \o Name]),
                 !.SymVector[T.Symtab[WrapPrefix \o Name] + 1].Body = body(T, T.Symtab[RealPrefix \o Name])]

\* The two memcpy calls of wrap, after its two addUndefined calls.
wrapBodies(T, Name) ==
  IF T.Crashed THEN T
  ELSE [T EXCEPT !.SymVector[T.Symtab[RealPrefix \o Name] + 1].Body = body(T, T.Symtab[Name]),
                 !.SymVector[T.Symtab[Name] + 1].Body = body(T, T.Symtab[WrapPrefix \o Name])]

\* wrap making its two references before it looks NAME up.
wrapRefersFirst(T, Name) ==
  IF T.Crashed THEN T
  ELSE IF ~find(T, Name) THEN addUndefinedName(addUndefinedName(T, RealPrefix \o Name), WrapPrefix \o Name)
  ELSE wrapBodies(addUndefinedName(addUndefinedName(T, RealPrefix \o Name), WrapPrefix \o Name), Name)

\* SymbolTable::wrap.
wrap(T, Name) ==
  IF T.Crashed \/ ~find(T, Name) THEN T
  ELSE wrapBodies(addUndefinedName(addUndefinedName(T, RealPrefix \o Name), WrapPrefix \o Name), Name)

(***************************************************************************)
(* The state machine: every action is one call of a public operation on    *)
(* the table, by the driver or by a parser.  log records the calls made    *)
(* and hist the index and the envelopes each call found; opsLeft bounds    *)
(* the number of calls.                                                    *)
(***************************************************************************)
UBOutcomes == {"crash", "junk"}

TableUB(u) == [Table EXCEPT !.ub = u]

Call(op, Name, Binding, File, StOther, Type, Size, Alignment) == [op |-> op, Name |-> Name, Binding |-> Binding, File |-> File, StOther |-> StOther, Type |-> Type, Size |-> Size, Alignment |-> Alignment]

Step(T, call) ==
  /\ ~Crashed
  /\ opsLeft > 0
  /\ opsLeft' = opsLeft - 1
  /\ log' = Append(log, call)
  /\ hist' = Append(hist, [Symtab |-> Symtab, SymVector |-> SymVector])
  /\ Symtab' = T.Symtab
  /\ SymVector' = T.SymVector
  /\ ArchiveFiles' = T.ArchiveFiles
  /\ LazyObjectFiles' = T.LazyObjectFiles
  /\ SharedFiles' = T.SharedFiles
  /\ BitcodeFiles' = T.BitcodeFiles
  /\ ObjectFiles' = T.ObjectFiles
  /\ SoNames' = T.SoNames
  /\ Fetched' = T.Fetched
  /\ IsUsed' = T.IsUsed
  /\ Diags' = T.Diags
  /\ NamesSeen' = T.NamesSeen
  /\ Crashed' = T.Crashed
  /\ Config' = Config

AddUndefinedAct(u, Name, Binding, StOther, Type, File) == Step(addUndefined(TableUB(u), Name, Binding, StOther, Type, FALSE, File), Call("addUndefined", Name, Binding, File, StOther, Type, 0, 0))

AddRegularAct(u, Name, Binding, StOther, Type, Section) == Step(addRegular(TableUB(u), Name, ESymOf(Binding, Type, StOther, 0), Section), Call("addRegular", Name, Binding, Section, StOther, Type, 0, 0))

AddCommonAct(Name, Size, Alignment, Binding, StOther, Type, File) == Step(addCommon(Table, Name, Size, Alignment, Binding, StOther, Type, File), Call("addCommon", Name, Binding, File, StOther, Type, Size, Alignment))

AddSharedAct(F, Name, StOther, Type) == Step(addShared(Table, F, Name, ESymOf(STB_GLOBAL, Type, StOther, 0)), Call("addShared", Name, STB_GLOBAL, F, StOther, Type, 0, 0))

AddBitcodeAct(Name, IsWeak, StOther, Type, F) == Step(addBitcode(Table, Name, IsWeak, StOther, Type, FALSE, F), Call("addBitcode", Name, IF IsWeak THEN STB_WEAK ELSE STB_GLOBAL, F, StOther, Type, 0, 0))

AddSyntheticAct(Name) == Step(addSynthetic(Table, Name), Call("addSynthetic", Name, STB_GLOBAL, NoFile, STV_HIDDEN, STT_NOTYPE, 0, 0))

AddAbsoluteAct(Name, Visibility) == Step(addAbsolute(Table, Name, Visibility), Call("addAbsolute", Name, STB_GLOBAL, NoFile, Visibility, STT_NOTYPE, 0, 0))

AddLazyArchiveAct(u, F, i) == Step(addLazyArchive(TableUB(u), F, Files[F].Index[i]), Call("addLazyArchive", Files[F].Index[i].Name, 0, F, 0, 0, 0, 0))

AddLazyObjectAct(u, Name, Obj) == Step(addLazyObject(TableUB(u), Name, Obj), Call("addLazyObject", Name, 0, Obj, 0, 0, 0, 0))

\* The driver hands each input file to addFile once.
Added(F) == \E i \in 1..Len(log) : log[i].op = "addFile" /\ log[i].File = F

AddFileAct(u, F) == ~Added(F) /\ Step(addFile(TableUB(u), F), Call("addFile", NoName, 0, F, 0, 0, 0, 0))

WrapAct(u, Name) == Step(wrap(TableUB(u), Name), Call("wrap", Name, 0, NoFile, 0, 0, 0, 0))

DefaultConfig == [AllowMultipleDefinition |-> FALSE, WarnCommon |-> FALSE, Shared |-> FALSE, ExportDynamic |-> FALSE, VersionScriptGlobalByDefault |-> TRUE, SymbolVersions |-> << >>, VersionScriptGlobals |-> << >>, NoUndefinedVersion |-> FALSE, DynamicList |-> << >>, EKind |-> "ELF64LE", EMachine |-> "x86_64", Emulation |-> "", FirstElf |-> "F1"]

InitTable(Configs, Ops) ==
  /\ Symtab = << >>
  /\ SymVector = << >>
  /\ ArchiveFiles = << >>
  /\ LazyObjectFiles = << >>
  /\ SharedFiles = << >>
  /\ BitcodeFiles = << >>
  /\ ObjectFiles = << >>
  /\ SoNames = {}
  /\ Fetched = {}
  /\ IsUsed = {}
  /\ Diags = << >>
  /\ NamesSeen = {}
  /\ Crashed = FALSE
  /\ Config \in Configs
  /\ log = << >>
  /\ hist = << >>
  /\ opsLeft = Ops

(***************************************************************************)
(* Spec: every insertion operation on two names.                           *)
(***************************************************************************)
MaxOps == 3
Bindings == {STB_GLOBAL, STB_WEAK}
Names == {NameX, NameY}

Init == InitTable({DefaultConfig}, MaxOps)

Next ==
  \/ \E u \in UBOutcomes, n \in Names, b \in Bindings : AddUndefinedAct(u, n, b, STV_DEFAULT, STT_NOTYPE, "O")
  \/ \E u \in UBOutcomes, n \in Names, b \in Bindings, sec \in {"F1", NoFile} : AddRegularAct(u, n, b, STV_DEFAULT, STT_NOTYPE, sec)
  \/ \E n \in Names, b \in Bindings : AddCommonAct(n, 4, 4, b, STV_DEFAULT, STT_OBJECT, "F2")
  \/ \E n \in Names : AddSharedAct("S1", n, STV_DEFAULT, STT_NOTYPE)
  \/ \E n \in Names, w \in BOOLEAN : AddBitcodeAct(n, w, STV_DEFAULT, STT_NOTYPE, "B1")
  \/ \E n \in Names : AddSyntheticAct(n)
  \/ \E u \in UBOutcomes, F \in {"A1"}, i \in 1..2 : AddLazyArchiveAct(u, F, i)
  \/ \E u \in UBOutcomes, n \in {NameX} : AddLazyObjectAct(u, n, "L1")

Spec == Init /\ [][Next]_vars

(***************************************************************************)
(* C1: the name index holds exactly one envelope per distinct name         *)
(* inserted (as many envelopes as index entries as names insert() was      *)
(* called with, the names the operations were called with among them), a   *)
(* name always maps to the same envelope, and no envelope is ever removed  *)
(* or re-indexed.                                                          *)
(***************************************************************************)
InsertionOps == {"addUndefined", "addRegular", "addCommon", "addShared", "addBitcode", "addSynthetic", "addLazyArchive", "addLazyObject"}

C1_OneEnvelopePerName ==
  /\ DOMAIN Symtab = NamesSeen
  /\ Len(SymVector) = Cardinality(DOMAIN Symtab)
  /\ Cardinality(NamesSeen) = Len(SymVector)
  /\ \A n \in DOMAIN Symtab : Symtab[n] \in 0..(Len(SymVector) - 1)
  /\ \A n, m \in DOMAIN Symtab : Symtab[n] = Symtab[m] => n = m
  /\ \A i \in 1..Len(log) : log[i].op \in InsertionOps => log[i].Name \in DOMAIN Symtab

C1_EnvelopesStay ==
  /\ \A n \in DOMAIN Symtab : n \in DOMAIN Symtab' /\ Symtab'[n] = Symtab[n]
  /\ Len(SymVector') >= Len(SymVector)

C1_NameIndex == [](C1_OneEnvelopePerName) /\ [][C1_EnvelopesStay]_vars

\* Three insertions, two names, one of them inserted again by a fetched member.
C1_Witness == Len(log) = 3 /\ Cardinality(DOMAIN Symtab) = 2 /\ Fetched # {} /\ \A i \in 1..3 : log[i].op \in InsertionOps

(***************************************************************************)
(* SpecDef: definitions of one name, of both bindings, TLS and not, from   *)
(* two files and from no section, with and without                         *)
(* allow-multiple-definition.                                              *)
(***************************************************************************)
MaxDefOps == 3
Types == {STT_NOTYPE, STT_TLS}

InitDef == InitTable({[DefaultConfig EXCEPT !.AllowMultipleDefinition = a] : a \in BOOLEAN}, MaxDefOps)

NextDef ==
  \/ \E u \in UBOutcomes, b \in Bindings, t \in Types, sec \in {"F1", "F2", NoFile} : AddRegularAct(u, NameX, b, STV_DEFAULT, t, sec)
  \/ \E w \in BOOLEAN, t \in Types : AddBitcodeAct(NameX, w, STV_DEFAULT, t, "B1")
  \/ \E b \in Bindings : AddCommonAct(NameX, 4, 4, b, STV_DEFAULT, STT_OBJECT, "F2")
  \/ AddSyntheticAct(NameX)
  \/ AddAbsoluteAct(NameX, STV_DEFAULT)

SpecDef == InitDef /\ [][NextDef]_vars

\* The calls made for name n, in order, and the diagnostics of one kind.
CallsOn(n) == SelectSeq(log, LAMBDA c : c.Name = n)
DiagsOf(kind) == SelectSeq(Diags, LAMBDA d : d.kind = kind)
Envelope(n) == SymVector[Symtab[n] + 1]

\* The body a definition call installs when it wins.
BodyOfCall(c) ==
  CASE c.op = "addRegular" -> MkBody("Regular", c.Name, c.File, NoFile, c.Type, c.StOther, 0, 0)
    [] c.op = "addAbsolute" -> MkBody("Regular", c.Name, NoFile, NoFile, STT_NOTYPE, c.StOther, 0, 0)
    [] c.op = "addBitcode" -> MkBody("Bitcode", c.Name, c.File, NoFile, c.Type, c.StOther, 0, 0)
    [] c.op = "addSynthetic" -> MkBody("Synthetic", c.Name, NoFile, NoFile, STT_NOTYPE, STV_HIDDEN, 0, 0)
    [] c.op = "addCommon" -> MkBody("Common", c.Name, NoFile, NoFile, c.Type, c.StOther, c.Size, c.Alignment)

(***************************************************************************)
(* C2: a name that received exactly a strong Regular definition from F1    *)
(* and a weak Regular definition from F2, in either order, holds F1's      *)
(* definition with a non-weak binding, and no duplicate-symbol diagnostic  *)
(* was raised.                                                             *)
(***************************************************************************)
IsStrongF1(c) == c.op = "addRegular" /\ c.Binding = STB_GLOBAL /\ c.File = "F1"
IsWeakF2(c) == c.op = "addRegular" /\ c.Binding = STB_WEAK /\ c.File = "F2"
StrongAndWeak(h) == Len(h) = 2 /\ ((IsStrongF1(h[1]) /\ IsWeakF2(h[2])) \/ (IsWeakF2(h[1]) /\ IsStrongF1(h[2])))
StrongOf(h) == IF IsStrongF1(h[1]) THEN h[1] ELSE h[2]

C2_StrongBeatsWeakEitherOrder ==
  \A n \in {NameX} : StrongAndWeak(CallsOn(n)) =>
    /\ Envelope(n).Body = BodyOfCall(StrongOf(CallsOn(n)))
    /\ Envelope(n).Body.File = "F1"
    /\ Envelope(n).Binding = STB_GLOBAL
    /\ DiagsOf("duplicate symbol") = << >>

\* The weak definition came first and the strong one displaced it.
C2_Witness == StrongAndWeak(log) /\ IsWeakF2(log[1]) /\ Envelope(NameX).Body.File = "F1"

(***************************************************************************)
(* C3, as amended: a name that received only weak definitions holds the    *)
(* first of them, with a weak binding, and no duplicate-symbol diagnostic  *)
(* was raised; the later weak definitions raise no diagnostic but "TLS     *)
(* attribute mismatch".                                                    *)
(***************************************************************************)
IsWeakDef(c) == c.op \in {"addRegular", "addBitcode", "addCommon"} /\ c.Binding = STB_WEAK
OnlyWeakDefs(h) == Len(h) >= 1 /\ \A i \in 1..Len(h) : IsWeakDef(h[i])

C3_FirstWeakWins ==
  \A n \in {NameX} : OnlyWeakDefs(CallsOn(n)) =>
    /\ Envelope(n).Body = BodyOfCall(CallsOn(n)[1])
    /\ Envelope(n).Binding = STB_WEAK
    /\ \A i \in 1..Len(Diags) : Diags[i].kind = "TLS attribute mismatch"

\* C3 as stated: the later weak definitions raise no diagnostic at all.
C3_FirstWeakWinsSilently ==
  \A n \in {NameX} : OnlyWeakDefs(CallsOn(n)) =>
    /\ Envelope(n).Body = BodyOfCall(CallsOn(n)[1])
    /\ Envelope(n).Binding = STB_WEAK
    /\ Diags = << >>

\* Three weak definitions from different places; the first is kept.
C3_Witness == Len(log) = 3 /\ OnlyWeakDefs(log) /\ log[1].File # log[2].File /\ log[2].op # log[3].op /\ Envelope(NameX).Body = BodyOfCall(log[1])

(***************************************************************************)
(* C4: a strong non-common definition inserted for a name whose envelope   *)
(* holds a strong non-common definition leaves the payload as it is and    *)
(* reports "duplicate symbol: NAME in FILE1 and FILE2", as an error        *)
(* without allow-multiple-definition and as a warning with it.             *)
(***************************************************************************)
IsStrongDefCall(c) == c.op \in {"addRegular", "addSynthetic", "addBitcode", "addAbsolute"} /\ c.Binding # STB_WEAK
HoldsStrongDef(n) == n \in DOMAIN Symtab /\ Envelope(n).Binding # STB_WEAK /\ Envelope(n).Body.kind \in {"Regular", "Synthetic", "Bitcode"}
LastCall == log'[Len(log')]
LastName == log'[Len(log')].Name
LastFile == log'[Len(log')].File
DuplicateMsg == Msg(IF Config.AllowMultipleDefinition THEN "warning" ELSE "error", "duplicate symbol", LastName, getSourceFile(Envelope(LastName).Body), LastFile, NoName)

DuplicateReported ==
  /\ SymVector'[Symtab'[LastName] + 1].Body = Envelope(LastName).Body
  /\ Len(Diags') > Len(Diags)
  /\ Diags'[Len(Diags')] = DuplicateMsg
  /\ ~Crashed'

C4_DuplicateStrongReported == [][(Len(log') = Len(log) + 1 /\ IsStrongDefCall(LastCall) /\ HoldsStrongDef(LastName)) => DuplicateReported]_vars

\* The same for the calls that carry a section or come from no Elf_Sym: every
\* duplicate but that of addRegular(Name, Sym, Section) with a null Section.
C4_DuplicateReportedButNullSection == [][(Len(log') = Len(log) + 1 /\ IsStrongDefCall(LastCall) /\ HoldsStrongDef(LastName) /\ ~(LastCall.op = "addRegular" /\ LastFile = NoFile)) => DuplicateReported]_vars

(***************************************************************************)
(* SpecLazy: archives, a lazy object and the objects that refer to x, each *)
(* handed to addFile once, and lazy records and references to x of either  *)
(* binding and type handed to the table one by one.                        *)
(***************************************************************************)
MaxLazyOps == 4

InitLazy == InitTable({DefaultConfig}, MaxLazyOps)

NextLazy ==
  \/ \E u \in UBOutcomes, F \in {"A1", "A2", "L1", "O", "OW"} : AddFileAct(u, F)
  \/ \E u \in UBOutcomes, b \in Bindings, t \in Types : AddUndefinedAct(u, NameX, b, STV_DEFAULT, t, "O")
  \/ \E u \in UBOutcomes, F \in {"A1", "A2"} : AddLazyArchiveAct(u, F, 1)
  \/ \E u \in UBOutcomes : AddLazyObjectAct(u, NameX, "L1")

SpecLazy == InitLazy /\ [][NextLazy]_vars

\* What a call of the log brings for x: a lazy record, a non-weak reference
\* or a weak reference.
LazyProviders == {"A1", "A2", "L1"}
IsLazyFile(c) == c.op = "addFile" /\ c.File \in LazyProviders
IsLazyCall(c) == IsLazyFile(c) \/ (c.op \in {"addLazyArchive", "addLazyObject"} /\ c.Name = NameX)
IsStrongRef(c) == (c.op = "addFile" /\ c.File = "O") \/ (c.op = "addUndefined" /\ c.Name = NameX /\ c.Binding # STB_WEAK)
IsWeakRef(c) == (c.op = "addFile" /\ c.File = "OW") \/ (c.op = "addUndefined" /\ c.Name = NameX /\ c.Binding = STB_WEAK)
TypeOfRef(c) == IF c.op = "addFile" THEN Files[c.File].Syms[1].Type ELSE c.Type
Positions(P(_)) == {i \in 1..Len(log) : P(log[i])}
FirstOf(I) == CHOOSE i \in I : \A j \in I : i <= j
LastOf(I) == CHOOSE i \in I : \A j \in I : j <= i
Range(s) == {s[i] : i \in 1..Len(s)}

\* The member of a lazy provider that defines x.
MemberOfX(A) == IF Files[A].kind = "archive" THEN Files[A].Index[1].Member ELSE Files[A].Content
IsLazyBodyOf(B, A) == B.kind \in {"LazyArchive", "LazyObject"} /\ B.File = A /\ B.Member = MemberOfX(A)
IsRegularOf(B, M) == B.kind = "Regular" /\ B.File = M /\ B.Name = NameX

(***************************************************************************)
(* C5: when x has received the lazy record of one archive (or lazy object) *)
(* A and non-weak undefined references, in either order, the member M of   *)
(* A that defines x has been fetched and admitted as an object file, the   *)
(* envelope of x holds M's Regular definition, and the registry holds both *)
(* A and M.                                                                *)
(***************************************************************************)
LazyAndStrongRefOnly(A) ==
  /\ \A i \in 1..Len(log) : (IsLazyFile(log[i]) /\ log[i].File = A) \/ IsStrongRef(log[i])
  /\ Positions(IsLazyFile) # {}
  /\ Positions(IsStrongRef) # {}

MemberAdmitted(A) ==
  /\ MemberOfX(A) \in Fetched
  /\ MemberOfX(A) \in Range(ObjectFiles)
  /\ A \in Range(ArchiveFiles) \cup Range(LazyObjectFiles)
  /\ IsRegularOf(Envelope(NameX).Body, MemberOfX(A))

C5_LazyFetchedByReference == \A A \in LazyProviders : LazyAndStrongRefOnly(A) => MemberAdmitted(A)

\* Both orders happen: the lazy record first, and the reference first.
C5_Witness == LazyAndStrongRefOnly("A1") /\ MemberAdmitted("A1") /\ IsLazyFile(log[1]) /\ Len(log) = 2

C5_WitnessReferenceFirst == LazyAndStrongRefOnly("L1") /\ MemberAdmitted("L1") /\ IsStrongRef(log[1])

(***************************************************************************)
(* C6: when x has received only lazy records and weak undefined            *)
(* references, in either order, nothing has been fetched, the envelope of  *)
(* x holds the first lazy record, and that record carries the type of the  *)
(* weak reference: of the last one made after the lazy record, or of the   *)
(* first one when all were made before it.                                 *)
(***************************************************************************)
LazyAndWeakRefOnly ==
  /\ \A i \in 1..Len(log) : IsLazyCall(log[i]) \/ IsWeakRef(log[i])
  /\ Positions(IsLazyCall) # {}
  /\ Positions(IsWeakRef) # {}

WeakRefsAfterLazy == {i \in Positions(IsWeakRef) : i > FirstOf(Positions(IsLazyCall))}
CarriedType == IF WeakRefsAfterLazy # {} THEN TypeOfRef(log[LastOf(WeakRefsAfterLazy)]) ELSE TypeOfRef(log[FirstOf(Positions(IsWeakRef))])

C6_WeakReferenceKeepsLazy ==
  LazyAndWeakRefOnly =>
    /\ Fetched = {}
    /\ Range(ObjectFiles) \subseteq {"OW"}
    /\ IsLazyBodyOf(Envelope(NameX).Body, log[FirstOf(Positions(IsLazyCall))].File)
    /\ Envelope(NameX).Body.Type = CarriedType
    /\ Envelope(NameX).Binding = STB_WEAK

C6_Witness == LazyAndWeakRefOnly /\ IsLazyCall(log[1]) /\ Envelope(NameX).Body.Type = STT_TLS /\ Len(log) = 2

C6_WitnessReferenceFirst == LazyAndWeakRefOnly /\ IsWeakRef(log[1]) /\ Envelope(NameX).Body.Type = STT_TLS /\ IsLazyBodyOf(Envelope(NameX).Body, "A1")

(***************************************************************************)
(* C7: when archive A1 is the first to bring a lazy record for x and       *)
(* archive A2 brings one later, the envelope keeps A1's record until a     *)
(* non-weak reference made after A1 pulls A1's member in; then x is        *)
(* defined by A1's member, and A2's member is never fetched.               *)
(***************************************************************************)
BroughtBy(A) == {i \in Positions(IsLazyCall) : log[i].File = A}

A1ThenA2 ==
  /\ BroughtBy("A1") # {} /\ BroughtBy("A2") # {}
  /\ log[FirstOf(Positions(IsLazyCall))].File = "A1"
  /\ \A i \in Positions(IsStrongRef) : i > FirstOf(Positions(IsLazyCall))

C7_FirstArchiveWins ==
  A1ThenA2 =>
    /\ MemberOfX("A2") \notin Fetched
    /\ MemberOfX("A2") \notin Range(ObjectFiles)
    /\ Positions(IsStrongRef) = {} => IsLazyBodyOf(Envelope(NameX).Body, "A1") /\ Fetched = {}
    /\ Positions(IsStrongRef) # {} => IsRegularOf(Envelope(NameX).Body, MemberOfX("A1")) /\ Fetched = {MemberOfX("A1")}

C7_Witness == A1ThenA2 /\ Positions(IsStrongRef) # {} /\ LastOf(Positions(IsLazyCall)) < FirstOf(Positions(IsStrongRef)) /\ Fetched = {"M1"}

(***************************************************************************)
(* SpecDso: shared files, two of them of one soname for the link's target  *)
(* and one of that soname for another machine, and two objects, each       *)
(* handed to addFile once.                                                 *)
(***************************************************************************)
MaxDsoOps == 4

InitDso == InitTable({DefaultConfig}, MaxDsoOps)

NextDso == \E u \in UBOutcomes, F \in {"S1", "S2", "S3", "S4", "O", "F2"} : AddFileAct(u, F)

SpecDso == InitDso /\ [][NextDso]_vars

IsSharedFile(F) == Files[F].kind = "shared"
FilesOfSoName(n) == {i \in 1..Len(SharedFiles) : Files[SharedFiles[i]].SoName = n}
SharedBodies == {i \in 1..Len(SymVector) : SymVector[i].Body.kind = "Shared"}

\* The registry retains at most one shared file per soname, and every Shared
\* payload comes from a retained file.
OneFilePerSoName ==
  /\ \A n \in SoNames : Cardinality(FilesOfSoName(n)) = 1
  /\ \A i \in SharedBodies : SymVector[i].Body.File \in Range(SharedFiles)

\* The step is addFile of a shared file whose soname was already seen.
SeenSoNameStep == Len(log') = Len(log) + 1 /\ LastCall.op = "addFile" /\ IsSharedFile(LastFile) /\ Files[LastFile].SoName \in SoNames

FileDropped ==
  /\ SharedFiles' = SharedFiles /\ ObjectFiles' = ObjectFiles /\ ArchiveFiles' = ArchiveFiles
  /\ LazyObjectFiles' = LazyObjectFiles /\ BitcodeFiles' = BitcodeFiles
  /\ Symtab' = Symtab /\ SymVector' = SymVector /\ SoNames' = SoNames

(***************************************************************************)
(* C8: the registry holds at most one shared file per soname; addFile of a *)
(* shared file whose soname was already seen adds the file to no list and  *)
(* inserts none of its symbols, and raises no diagnostic when the file is  *)
(* compatible with the link's target (an incompatible one is reported, as  *)
(* any incompatible file is, before its soname is looked at).              *)
(***************************************************************************)
C8_OneSharedFilePerSoName == [](OneFilePerSoName) /\ [][SeenSoNameStep => FileDropped /\ (isCompatible(LastFile) => Diags' = Diags)]_vars

\* C8 as stated: the file of a seen soname is dropped and nothing is reported.
C8_SeenSoNameDroppedSilently == [][SeenSoNameStep => FileDropped /\ Diags' = Diags]_vars

\* S2 was handed over after S1, of the same soname: S1 alone is retained, and
\* y, which only S2 defines, is absent.
C8_Witness == Added("S1") /\ Added("S2") /\ SharedFiles = <<"S1">> /\ NameY \notin DOMAIN Symtab /\ Envelope(NameX).Body.File = "S1" /\ Diags = << >>

(***************************************************************************)
(* SpecWrap: x, __real_x and __wrap_x defined and referred to by objects,  *)
(* x brought lazily by archive A2 and __wrap_x by archive AW (whose member *)
(* refers to __real_x), and wrap(x).                                       *)
(***************************************************************************)
MaxWrapOps == 4

RealX == RealPrefix \o NameX
WrapX == WrapPrefix \o NameX

InitWrap == InitTable({DefaultConfig}, MaxWrapOps)

NextWrap ==
  \/ \E u \in UBOutcomes, n \in {NameX, WrapX} : AddRegularAct(u, n, STB_GLOBAL, STV_DEFAULT, STT_NOTYPE, "F1")
  \/ \E u \in UBOutcomes, n \in {NameX, RealX} : AddUndefinedAct(u, n, STB_GLOBAL, STV_DEFAULT, STT_NOTYPE, "O")
  \/ \E u \in UBOutcomes, F \in {"AW", "A2"} : AddFileAct(u, F)
  \/ \E u \in UBOutcomes : WrapAct(u, NameX)

SpecWrap == InitWrap /\ [][NextWrap]_vars

IsWrapCall(c) == c.op = "wrap" /\ c.Name = NameX
BodyIn(h, n) == h.SymVector[h.Symtab[n] + 1].Body
Now == [Symtab |-> Symtab, SymVector |-> SymVector]

\* The step is the first wrap(x) of the run, on a table that contains x.
FirstWrapStep == Len(log') = Len(log) + 1 /\ IsWrapCall(LastCall) /\ Positions(IsWrapCall) = {} /\ NameX \in DOMAIN Symtab

\* The payload of __wrap_x once wrap has referred to it: an Undefined if the
\* name was absent, the definition of the fetched member if it was lazy, and
\* the payload it had otherwise.
WrapPayloadReferred ==
  IF WrapX \notin DOMAIN Symtab THEN MkBody("Undefined", WrapX, NoFile, NoFile, 0, STV_DEFAULT, 0, 0)
  ELSE IF isLazy(Envelope(WrapX).Body) /\ Envelope(WrapX).Body.Member \notin Fetched THEN MkBody("Regular", WrapX, Envelope(WrapX).Body.Member, NoFile, STT_NOTYPE, STV_DEFAULT, 0, 0)
  ELSE Envelope(WrapX).Body

IdentityKept ==
  /\ \A n \in DOMAIN Symtab : n \in DOMAIN Symtab' /\ Symtab'[n] = Symtab[n]
  /\ {RealX, WrapX} \subseteq DOMAIN Symtab'
  /\ Cardinality({Symtab'[NameX], Symtab'[RealX], Symtab'[WrapX]}) = 3

C9_WitnessLazyWrap == Len(log) > 0 /\ Cardinality(Positions(IsWrapCall)) = 1 /\ IsWrapCall(log[Len(log)]) /\ {NameX, WrapX} \subseteq DOMAIN hist[Len(log)].Symtab /\ isLazy(BodyIn(hist[Len(log)], WrapX)) /\ Envelope(NameX).Body.File = "MW"

(***************************************************************************)
(* C10: wrap(x) applied twice in succession does not restore the table:    *)
(* after the second call x and __wrap_x both hold the payload of __wrap_x, *)
(* and __real_x holds it too, or, when the payload x first held was lazy   *)
(* and the second call's reference to __real_x fetched its member, that    *)
(* member's definition of x.  x holds what it held before the first call   *)
(* only if that was the payload of __wrap_x already.                       *)
(***************************************************************************)
WrappedTwice == Len(log) >= 2 /\ IsWrapCall(log[Len(log)]) /\ IsWrapCall(log[Len(log) - 1]) /\ NameX \in DOMAIN hist[Len(log) - 1].Symtab
BeforeFirst == hist[Len(log) - 1]

C10_WrapTwiceLeavesWrapper ==
  WrappedTwice =>
    /\ \A n \in DOMAIN BeforeFirst.Symtab : Symtab[n] = BeforeFirst.Symtab[n]
    /\ Envelope(NameX).Body = Envelope(WrapX).Body
    /\ Envelope(WrapX).Body.Name = WrapX
    /\ \/ Envelope(RealX).Body = Envelope(WrapX).Body
       \/ isLazy(BodyIn(BeforeFirst, NameX)) /\ IsRegularOf(Envelope(RealX).Body, BodyIn(BeforeFirst, NameX).Member)

\* C10 as stated: after the second call the three payloads are those held
\* before the first call.
C10_WrapTwiceIsNoOp == (WrappedTwice /\ {RealX, WrapX} \subseteq DOMAIN BeforeFirst.Symtab) => \A n \in {NameX, RealX, WrapX} : Envelope(n).Body = BodyIn(BeforeFirst, n)

\* x defined by F1 and __wrap_x defined by F1, wrapped twice: x's own
\* definition is held by none of the three envelopes.
\* The other case: x brought lazily by A2 and fetched by the second call.
C10_WitnessLazyName == WrappedTwice /\ Envelope(RealX).Body # Envelope(WrapX).Body

C10_Witness == WrappedTwice /\ BodyIn(BeforeFirst, NameX).Name = NameX /\ BodyIn(BeforeFirst, NameX).kind = "Regular" /\ Envelope(NameX).Body.kind = "Regular" /\ Envelope(RealX).Body = Envelope(NameX).Body

(***************************************************************************)
(* SpecCommon: Common records of x of two sizes, two alignments and either *)
(* binding, among regular definitions of and references to x, with and     *)
(* without warn-common.                                                    *)
(***************************************************************************)
MaxCommonOps == 3
CommonSizes == {4, 8}
CommonAlignments == {4, 16}

InitCommon == InitTable({[DefaultConfig EXCEPT !.WarnCommon = w] : w \in BOOLEAN}, MaxCommonOps)

NextCommon ==
  \/ \E s \in CommonSizes, a \in CommonAlignments, b \in Bindings : AddCommonAct(NameX, s, a, b, STV_DEFAULT, STT_OBJECT, "F2")
  \/ \E u \in UBOutcomes, b \in Bindings : AddRegularAct(u, NameX, b, STV_DEFAULT, STT_NOTYPE, "F1")
  \/ \E u \in UBOutcomes : AddUndefinedAct(u, NameX, STB_GLOBAL, STV_DEFAULT, STT_NOTYPE, "O")

SpecCommon == InitCommon /\ [][NextCommon]_vars

IsCommonCall(c) == c.op = "addCommon" /\ c.Name = NameX
IsStrongCommonCall(c) == IsCommonCall(c) /\ c.Binding # STB_WEAK
MaxOf(S) == CHOOSE m \in S : \A n \in S : n <= m
HoldsCommon == NameX \in DOMAIN Symtab /\ Envelope(NameX).Body.kind = "Common"

\* The Common records that count: the non-weak ones, or the first record
\* when every Common record was weak.
CountedCommons == IF Positions(IsStrongCommonCall) # {} THEN Positions(IsStrongCommonCall) ELSE {FirstOf(Positions(IsCommonCall))}

(***************************************************************************)
(* C11: while the envelope of x holds a Common, its size and alignment are *)
(* the maxima over the non-weak Common records inserted for x so far (a    *)
(* weak Common arriving on a definition is dropped, and a non-weak Common  *)
(* replaces the payload of a weak envelope); when every Common record was  *)
(* weak they are those of the first one.                                   *)
(***************************************************************************)
C11_CommonHoldsMaxOfStrong ==
  HoldsCommon =>
    /\ Envelope(NameX).Body.Size = MaxOf({log[i].Size : i \in CountedCommons})
    /\ Envelope(NameX).Body.Alignment = MaxOf({log[i].Alignment : i \in CountedCommons})

\* C11 as stated: the maxima over all Common records, whatever their bindings.
C11_CommonHoldsMaxOfAll ==
  HoldsCommon =>
    /\ Envelope(NameX).Body.Size = MaxOf({log[i].Size : i \in Positions(IsCommonCall)})
    /\ Envelope(NameX).Body.Alignment = MaxOf({log[i].Alignment : i \in Positions(IsCommonCall)})

\* Two non-weak Common records were merged: the size is that of one and the
\* alignment that of the other.
C11_Witness == HoldsCommon /\ Cardinality(Positions(IsStrongCommonCall)) = 2 /\ Envelope(NameX).Body.Size = 8 /\ Envelope(NameX).Body.Alignment = 16 /\ \A i \in Positions(IsCommonCall) : log[i].Size # 8 \/ log[i].Alignment # 16

\* The Common records of calls, inserted into an empty table in the order given.
RECURSIVE ReplayCommons(_, _, _, _)
ReplayCommons(T, calls, order, i) ==
  IF i > Len(order) THEN T
  ELSE ReplayCommons(addCommon(T, calls[order[i]].Name, calls[order[i]].Size, calls[order[i]].Alignment, calls[order[i]].Binding, calls[order[i]].StOther, calls[order[i]].Type, calls[order[i]].File), calls, order, i + 1)

Orders(n) == {p \in [1..n -> 1..n] : \A i, j \in 1..n : p[i] = p[j] => i = j}
ExtentOf(B) == <<B.Size, B.Alignment>>
ExtentAfter(order) == ExtentOf(BodyIn(ReplayCommons(EmptyTable, log, order, 1), NameX))
OnlyCommons == Len(log) >= 2 /\ \A i \in 1..Len(log) : IsCommonCall(log[i])

(***************************************************************************)
(* C12: for Common records of x of which one at least is non-weak, every   *)
(* insertion order ends with the same size and alignment, the maxima over  *)
(* the non-weak records; when all the records are weak the order matters:  *)
(* size and alignment are those of the record inserted first.              *)
(***************************************************************************)
C12_CommonMergeOrderFree ==
  OnlyCommons =>
    \A p \in Orders(Len(log)) :
      IF Positions(IsStrongCommonCall) # {}
        THEN ExtentAfter(p) = ExtentOf(Envelope(NameX).Body) /\ ExtentAfter(p) = <<MaxOf({log[i].Size : i \in Positions(IsStrongCommonCall)}), MaxOf({log[i].Alignment : i \in Positions(IsStrongCommonCall)})>>
        ELSE ExtentAfter(p) = <<log[p[1]].Size, log[p[1]].Alignment>>

\* C12 as stated: every insertion order of any Common records ends with the
\* same size and alignment.
C12_CommonMergeOrderFreeAnyBinding == OnlyCommons => \A p \in Orders(Len(log)) : ExtentAfter(p) = ExtentOf(Envelope(NameX).Body)

\* Three non-weak Common records of which no two agree in size and alignment.
C12_Witness == OnlyCommons /\ Len(log) = 3 /\ Positions(IsStrongCommonCall) = 1..3 /\ Cardinality({<<log[i].Size, log[i].Alignment>> : i \in 1..3}) = 3 /\ ExtentOf(Envelope(NameX).Body) = <<8, 16>>

(***************************************************************************)
(* The version-script pass.  A symbol found by find or findAll is known by *)
(* its envelope (SymbolBody::symbol()), an index into SymVector.           *)
(***************************************************************************)
\* globMatch(Pattern, Name): '*' matches any run of characters, '?' any one.
RECURSIVE globMatch(_, _)
globMatch(P, N) ==
  IF P = << >> THEN N = << >>
  ELSE IF Head(P) = "*" THEN globMatch(Tail(P), N) \/ (N # << >> /\ globMatch(P, Tail(N)))
  ELSE N # << >> /\ (Head(P) = "?" \/ Head(P) = Head(N)) /\ globMatch(Tail(P), Tail(N))

\* Pattern.find_first_of("?*") != npos
hasWildcard(Pattern) == \E i \in 1..Len(Pattern) : Pattern[i] \in {"?", "*"}

\* findAll with every pattern taken literally, wildcards included.
findAllLiteral(T, Pattern) ==
  IF find(T, Pattern) /\ ~isUndefined(body(T, T.Symtab[Pattern])) THEN {T.Symtab[Pattern]} ELSE {}

\* findAll: the envelopes of the symbols, not undefined, that match Pattern.
findAll(T, Pattern) ==
  IF ~hasWildcard(Pattern)
    THEN (IF find(T, Pattern) /\ ~isUndefined(body(T, T.Symtab[Pattern])) THEN {T.Symtab[Pattern]} ELSE {})
    ELSE {T.Symtab[n] : n \in {m \in DOMAIN T.Symtab : ~isUndefined(body(T, T.Symtab[m])) /\ globMatch(Pattern, m)}}

\* The first branch of scanVersionScript: the names of VersionScriptGlobals
\* that are in the table become VER_NDX_GLOBAL.
markGlobals(T, Globals) ==
  [T EXCEPT !.SymVector = [i \in DOMAIN @ |-> IF \E k \in 1..Len(Globals) : find(T, Globals[k]) /\ T.Symtab[Globals[k]] = i - 1 THEN [@[i] EXCEPT !.VersionId = VER_NDX_GLOBAL] ELSE @[i]]]

\* The warnings of the inner loop: one per matched symbol that carries a
\* version id other than VER_NDX_GLOBAL and VER_NDX_LOCAL.
duplicateWarnings(T, Syms, Pattern) ==
  [k \in 1..Cardinality({S \in Syms : Sym(T, S).VersionId \notin {VER_NDX_GLOBAL, VER_NDX_LOCAL}}) |-> Msg("warning", "duplicate symbol in version script", Pattern, NoFile, NoFile, NoName)]

\* assignVersion where a symbol that already carries a version moves to the next id.
assignVersionStacks(T, Syms, VName, Pattern, I) ==
  [T EXCEPT !.SymVector = [i \in DOMAIN @ |-> IF (i - 1) \in Syms THEN [@[i] EXCEPT !.VersionId = IF @ \in {VER_NDX_GLOBAL, VER_NDX_LOCAL} THEN I % Uint16 ELSE (@ + 1) % Uint16] ELSE @[i]]]

\* The body of the loop over V.Globals for one pattern.
assignVersion(T, Syms, VName, Pattern, I) ==
  IF Syms = {}
    THEN (IF Config.NoUndefinedVersion THEN error(T, "version script assignment failed", Pattern, NoFile, NoFile, VName) ELSE T)
    ELSE [T EXCEPT !.Diags = @ \o duplicateWarnings(T, Syms, Pattern),
                   !.SymVector = [i \in DOMAIN @ |-> IF (i - 1) \in Syms THEN [@[i] EXCEPT !.VersionId = I % Uint16] ELSE @[i]]]

RECURSIVE scanGlobalsOf(_, _, _, _)
scanGlobalsOf(T, V, j, I) == IF j > Len(V.Globals) THEN T ELSE scanGlobalsOf(assignVersion(T, findAll(T, V.Globals[j]), V.Name, V.Globals[j], I), V, j + 1, I)

RECURSIVE scanVersions(_, _, _)
scanVersions(T, k, I) == IF k > Len(Config.SymbolVersions) THEN T ELSE scanVersions(scanGlobalsOf(T, Config.SymbolVersions[k], 1, I), k + 1, I + 1)

\* scanVersionScript numbering the declared versions from 3.
scanVersionScriptFromThree(T) ==
  IF T.Crashed THEN T
  ELSE IF Config.VersionScriptGlobals # << >> THEN markGlobals(T, Config.VersionScriptGlobals)
  ELSE scanVersions(T, 1, FirstVersionIndex + 1)

\* SymbolTable::scanVersionScript.
scanVersionScript(T) ==
  IF T.Crashed THEN T
  ELSE IF Config.VersionScriptGlobals # << >> THEN markGlobals(T, Config.VersionScriptGlobals)
  ELSE scanVersions(T, 1, FirstVersionIndex)

ScanVersionScriptAct == Step(scanVersionScript(Table), Call("scanVersionScript", NoName, 0, NoFile, 0, 0, 0, 0))

(***************************************************************************)
(* SpecVer: names with and without a version suffix inserted under four    *)
(* configurations (two declared versions; one declared version and locals  *)
(* by default; a version script with globals only; no version script),     *)
(* and the version-script pass.                                            *)
(***************************************************************************)
MaxVerOps == 3

Ver1 == <<"1">>
Ver2 == <<"2">>
NameXv1 == <<"x", "@", "1">>
NameXv2 == <<"x", "@", "@", "2">>
NameYv3 == <<"y", "@", "3">>
VerNames == {NameX, NameY, NameXv1, NameXv2, NameYv3}

TwoVersions == [DefaultConfig EXCEPT !.SymbolVersions = <<[Name |-> Ver1, Globals |-> <<<<"x", "*">>>>], [Name |-> Ver2, Globals |-> <<NameY>>]>>]
OneVersionLocalRest == [DefaultConfig EXCEPT !.SymbolVersions = <<[Name |-> Ver1, Globals |-> <<<<"x", "*">>>>]>>, !.VersionScriptGlobalByDefault = FALSE]
GlobalsOnly == [DefaultConfig EXCEPT !.VersionScriptGlobals = <<NameX>>, !.VersionScriptGlobalByDefault = FALSE]
VerConfigs == {TwoVersions, [TwoVersions EXCEPT !.NoUndefinedVersion = TRUE], OneVersionLocalRest, GlobalsOnly, DefaultConfig}

InitVer == InitTable(VerConfigs, MaxVerOps)

NextVer ==
  \/ \E u \in UBOutcomes, n \in VerNames : AddRegularAct(u, n, STB_GLOBAL, STV_DEFAULT, STT_NOTYPE, "F1")
  \/ \E u \in UBOutcomes, n \in {NameX, NameY} : AddUndefinedAct(u, n, STB_GLOBAL, STV_DEFAULT, STT_NOTYPE, "O")
  \/ AddSharedAct("S1", NameX, STV_DEFAULT, STT_NOTYPE)
  \/ AddCommonAct(NameX, 4, 4, STB_GLOBAL, STV_DEFAULT, STT_OBJECT, "F2")
  \/ AddBitcodeAct(NameX, FALSE, STV_DEFAULT, STT_NOTYPE, "B1")
  \/ AddSyntheticAct(NameX)
  \/ \E u \in UBOutcomes : AddLazyArchiveAct(u, "A1", 1)
  \/ ScanVersionScriptAct

SpecVer == InitVer /\ [][NextVer]_vars

IsScanCall(c) == c.op = "scanVersionScript"
VersionIds(V) == [i \in DOMAIN V |-> V[i].VersionId]

(***************************************************************************)
(* C13: scanVersionScript run a second time on the table it left assigns   *)
(* every envelope the version id the first run assigned.                   *)
(***************************************************************************)
C13_ScanVersionScriptIdempotent ==
  /\ VersionIds(scanVersionScript(scanVersionScript(Table)).SymVector) = VersionIds(scanVersionScript(Table).SymVector)
  /\ (Len(log) >= 2 /\ IsScanCall(log[Len(log)]) /\ IsScanCall(log[Len(log) - 1])) => VersionIds(SymVector) = VersionIds(hist[Len(log)].SymVector)

\* The pass ran twice on a table where it gave x the id of the first
\* declared version.
C13_Witness == Len(log) = 3 /\ IsScanCall(log[3]) /\ IsScanCall(log[2]) /\ NameX \in DOMAIN Symtab /\ Envelope(NameX).VersionId = FirstVersionIndex /\ hist[2].SymVector[1].VersionId = VER_NDX_GLOBAL

OneVersionScript == Config = OneVersionLocalRest /\ Len(log) >= 1 /\ IsScanCall(log[Len(log)])
MatchesGlobalPattern(n) == \E j \in 1..Len(Config.SymbolVersions[1].Globals) : globMatch(Config.SymbolVersions[1].Globals[j], n)
HasAt(n) == FindChar(n, "@") # npos

AtPos(n) == CHOOSE i \in 1..Len(n) : n[i] = "@" /\ \A j \in 1..(i - 1) : n[j] # "@"
IsDefaultVersion(n) == AtPos(n) < Len(n) /\ n[AtPos(n) + 1] = "@"
VerOf(n) == SubSeq(n, AtPos(n) + (IF IsDefaultVersion(n) THEN 2 ELSE 1), Len(n))
DeclaredAt(ver) == {k \in 1..Len(Config.SymbolVersions) : Config.SymbolVersions[k].Name = ver}
IdOfDeclared(ver) == 1 + CHOOSE k \in DeclaredAt(ver) : \A j \in DeclaredAt(ver) : k <= j
NewDiags == SubSeq(Diags', Len(Diags) + 1, Len(Diags'))
UndefinedVersionReported(n) == \E i \in 1..Len(NewDiags) : NewDiags[i].sev = "error" /\ NewDiags[i].kind = "undefined version" /\ NewDiags[i].Name = n /\ NewDiags[i].Version = VerOf(n)

IdAsNamed(n, id) ==
  IF ~HasAt(n) THEN id = (IF Config.VersionScriptGlobalByDefault THEN VER_NDX_GLOBAL ELSE VER_NDX_LOCAL)
  ELSE IF DeclaredAt(VerOf(n)) = {} THEN id = 0 /\ UndefinedVersionReported(n)
  ELSE IF IsDefaultVersion(n) THEN id = IdOfDeclared(VerOf(n))
  ELSE id = IdOfDeclared(VerOf(n)) + VERSYM_HIDDEN

CreatedAsNamed(n) ==
  /\ IdAsNamed(n, SymVector'[Symtab'[n] + 1].VersionId)
  /\ SymVector'[Symtab'[n] + 1].VersionedName <=> SymVector'[Symtab'[n] + 1].VersionId \notin {VER_NDX_LOCAL, VER_NDX_GLOBAL}

(***************************************************************************)
(* C15: the envelope a step creates has the version id its name gives: no  *)
(* @ gives VER_NDX_GLOBAL or VER_NDX_LOCAL by the globals-by-default flag, *)
(* base@ver the id of the declared version with the hidden bit, base@@ver  *)
(* that id without it, an undeclared version the error and id 0; and the   *)
(* versioned-name flag is set exactly when the id is neither sentinel.     *)
(***************************************************************************)
C15_VersionIdAtCreation == [][\A n \in DOMAIN Symtab' \ DOMAIN Symtab : CreatedAsNamed(n)]_vars

\* x@1, x@@2 and y@3 were created under the script declaring 1 and 2.
C15_Witness ==
  /\ Config = TwoVersions /\ DOMAIN Symtab = {NameXv1, NameXv2, NameYv3}
  /\ Envelope(NameXv1).VersionId = FirstVersionIndex + VERSYM_HIDDEN /\ Envelope(NameXv1).VersionedName
  /\ Envelope(NameXv2).VersionId = FirstVersionIndex + 1 /\ Envelope(NameXv2).VersionedName
  /\ Envelope(NameYv3).VersionId = 0 /\ ~Envelope(NameYv3).VersionedName
  /\ Len(DiagsOf("undefined version")) = 1

\* x was created without @ under both settings of globals-by-default.
C15_WitnessNoAt == Config = OneVersionLocalRest /\ Len(log) = 1 /\ NameX \in DOMAIN Symtab /\ Envelope(NameX).VersionId = VER_NDX_LOCAL /\ ~Envelope(NameX).VersionedName

VersionKept(n) == SymVector'[Symtab'[n] + 1].VersionId = Envelope(n).VersionId /\ SymVector'[Symtab'[n] + 1].VersionedName = Envelope(n).VersionedName

(***************************************************************************)
(* C16: a step other than scanVersionScript leaves the version id and the  *)
(* versioned-name flag of every envelope that exists as they are, whatever *)
(* it does to the payload.                                                 *)
(***************************************************************************)
C16_VersionIdFixedAtInsertion == [][~IsScanCall(log'[Len(log')]) => \A n \in DOMAIN Symtab : VersionKept(n)]_vars

\* x came from a shared file, the pass gave it the first declared version,
\* and a regular definition then replaced the payload.
C16_Witness == Len(log) = 3 /\ log[1].op = "addShared" /\ IsScanCall(log[2]) /\ log[3].op = "addRegular" /\ log[3].Name = NameX /\ Envelope(NameX).Body.kind = "Regular" /\ Envelope(NameX).VersionId = FirstVersionIndex /\ hist[2].SymVector[1].VersionId = VER_NDX_GLOBAL

\* The two places that give an envelope the id of a declared version: its
\* name at creation (before any pass), and the last pattern that matches it
\* in the pass that just ran.
NoScanYet == Positions(IsScanCall) = {}
AssignedByName(n) == NoScanYet /\ HasAt(n) /\ DeclaredAt(VerOf(n)) # {}
MatchingVersions(n) == {k \in 1..Len(Config.SymbolVersions) : \E j \in 1..Len(Config.SymbolVersions[k].Globals) : globMatch(Config.SymbolVersions[k].Globals[j], n)}
AssignedByScript(n) == Len(log) >= 1 /\ IsScanCall(log[Len(log)]) /\ Config.VersionScriptGlobals = << >> /\ ~isUndefined(Envelope(n).Body) /\ MatchingVersions(n) # {}
LastMatchingVersion(n) == CHOOSE k \in MatchingVersions(n) : \A j \in MatchingVersions(n) : j <= k
Masked(id) == id % VERSYM_HIDDEN
DeclaredIdFrom(n, first, sentinels) ==
  /\ AssignedByName(n) => Masked(Envelope(n).VersionId) >= first /\ Masked(Envelope(n).VersionId) \notin sentinels
  /\ AssignedByScript(n) => Masked(Envelope(n).VersionId) >= first /\ Masked(Envelope(n).VersionId) \notin sentinels

(***************************************************************************)
(* C17: with the sentinels VER_NDX_LOCAL = 0 and VER_NDX_GLOBAL = 1, the   *)
(* id a name base@ver or base@@ver gets at creation and the id the         *)
(* version-script pass gives a match are, once the hidden bit is masked    *)
(* off, at least 2 and never a sentinel, and both are the position of the  *)
(* declared version plus one.                                              *)
(***************************************************************************)
C17_DeclaredIdsFromTwo ==
  \A n \in DOMAIN Symtab :
    /\ DeclaredIdFrom(n, 2, {VER_NDX_LOCAL, VER_NDX_GLOBAL})
    /\ AssignedByName(n) => Masked(Envelope(n).VersionId) = IdOfDeclared(VerOf(n))
    /\ AssignedByScript(n) => Envelope(n).VersionId = 1 + LastMatchingVersion(n)

\* C17 as stated: sentinels 1 and 2, declared versions numbered from 3.
C17_DeclaredIdsFromThree == \A n \in DOMAIN Symtab : DeclaredIdFrom(n, 3, {1, 2})

\* The pass gave x the id of the first declared version and y the second's.
C17_Witness == Config = TwoVersions /\ Len(log) = 3 /\ IsScanCall(log[3]) /\ {NameX, NameY} \subseteq DOMAIN Symtab /\ Envelope(NameX).VersionId = 2 /\ Envelope(NameY).VersionId = 3

\* x@1 and x@@2 got the same two ids, by name.
C17_WitnessByName == Config = TwoVersions /\ NoScanYet /\ {NameXv1, NameXv2} \subseteq DOMAIN Symtab /\ Masked(Envelope(NameXv1).VersionId) = 2 /\ Envelope(NameXv2).VersionId = 3

(***************************************************************************)
(* SpecAll: every insertion operation, addFile, wrap and the               *)
(* version-script pass on one table, under the script declaring two        *)
(* versions.                                                               *)
(***************************************************************************)
MaxAllOps == 3

InitAll == InitTable({TwoVersions}, MaxAllOps)

NextAll ==
  \/ \E u \in UBOutcomes, b \in Bindings : AddUndefinedAct(u, NameX, b, STV_DEFAULT, STT_NOTYPE, "O")
  \/ \E u \in UBOutcomes : AddUndefinedAct(u, NameYv3, STB_GLOBAL, STV_DEFAULT, STT_NOTYPE, "O")
  \/ \E u \in UBOutcomes, sec \in {"F1", NoFile} : AddRegularAct(u, NameX, STB_GLOBAL, STV_DEFAULT, STT_NOTYPE, sec)
  \/ AddCommonAct(NameX, 4, 4, STB_GLOBAL, STV_DEFAULT, STT_OBJECT, "F2")
  \/ AddSharedAct("S1", NameX, STV_DEFAULT, STT_NOTYPE)
  \/ AddBitcodeAct(NameX, FALSE, STV_DEFAULT, STT_NOTYPE, "B1")
  \/ AddSyntheticAct(NameX)
  \/ AddAbsoluteAct(NameX, STV_DEFAULT)
  \/ \E u \in UBOutcomes : AddLazyArchiveAct(u, "A1", 1)
  \/ \E u \in UBOutcomes : AddLazyObjectAct(u, NameX, "L1")
  \/ \E u \in UBOutcomes, F \in {"A1", "O", "S1", "S4", "MIPS"} : AddFileAct(u, F)
  \/ \E u \in UBOutcomes : WrapAct(u, NameX)
  \/ ScanVersionScriptAct

SpecAll == InitAll /\ [][NextAll]_vars

HasBody(E) == E.Body.kind # "null"

(***************************************************************************)
(* C18: every envelope the name index refers to, and every envelope of     *)
(* SymVector, holds a payload of some symbol kind.                         *)
(***************************************************************************)
C18_PayloadNeverNull ==
  /\ \A n \in DOMAIN Symtab : Symtab[n] + 1 \in DOMAIN SymVector /\ HasBody(Envelope(n))
  /\ \A i \in DOMAIN SymVector : HasBody(SymVector[i])

\* y@3 was created with the undefined-version error, x lazily, and wrap(x)
\* then created __real_x and __wrap_x and copied payloads.
C18_Witness ==
  /\ Len(log) = 3 /\ log[1].Name = NameYv3 /\ log[2].op = "addLazyArchive" /\ IsWrapCall(log[3])
  /\ DOMAIN Symtab = {NameYv3, NameX, RealX, WrapX}
  /\ Len(DiagsOf("undefined version")) = 1
  /\ Envelope(NameYv3).Body.kind = "Undefined"

(***************************************************************************)
(* SpecVis: records of every kind for x with different visibilities.       *)
(***************************************************************************)
MaxVisOps == 3

InitVis == InitTable({DefaultConfig}, MaxVisOps)

NextVis ==
  \/ \E u \in UBOutcomes, b \in Bindings, v \in {STV_DEFAULT, STV_HIDDEN} : AddUndefinedAct(u, NameX, b, v, STT_NOTYPE, "O")
  \/ \E u \in UBOutcomes, b \in Bindings, v \in {STV_DEFAULT, STV_PROTECTED} : AddRegularAct(u, NameX, b, v, STT_NOTYPE, "F1")
  \/ \E v \in {STV_DEFAULT, STV_INTERNAL} : AddCommonAct(NameX, 4, 4, STB_GLOBAL, v, STT_OBJECT, "F2")
  \/ \E v \in {STV_DEFAULT, STV_PROTECTED} : AddBitcodeAct(NameX, FALSE, v, STT_NOTYPE, "B1")
  \/ AddSyntheticAct(NameX)
  \/ \E v \in {STV_DEFAULT, STV_INTERNAL} : AddSharedAct("S1", NameX, v, STT_NOTYPE)
  \/ \E u \in UBOutcomes : AddLazyArchiveAct(u, "A1", 1)
  \/ \E u \in UBOutcomes : AddLazyObjectAct(u, NameX, "L1")

SpecVis == InitVis /\ [][NextVis]_vars

\* The records whose visibility counts, and the strictest of a set of
\* visibilities.
IsVisibilityRecord(c) == c.Name = NameX /\ c.op \in {"addUndefined", "addRegular", "addCommon", "addBitcode", "addSynthetic"}
VisibilitiesGiven == {VisibilityOf(log[i].StOther) : i \in Positions(IsVisibilityRecord)}
StrictestOf(Vs) == IF Vs \ {STV_DEFAULT} = {} THEN STV_DEFAULT ELSE CHOOSE v \in Vs \ {STV_DEFAULT} : \A w \in Vs \ {STV_DEFAULT} : v <= w

(***************************************************************************)
(* C19: the visibility of the envelope of x is the strictest of the        *)
(* visibilities of the undefined, regular, common, bitcode and synthetic   *)
(* records inserted for x, in whatever order and whether they won or lost; *)
(* shared and lazy records do not count.                                   *)
(***************************************************************************)
C19_VisibilityIsStrictest == NameX \in DOMAIN Symtab => Envelope(NameX).Visibility = StrictestOf(VisibilitiesGiven)

\* A protected definition won, a hidden reference lost, a shared record of
\* internal visibility came last: x is hidden.
C19_Witness ==
  /\ Len(log) = 3 /\ log[1].op = "addRegular" /\ log[1].StOther = STV_PROTECTED
  /\ log[2].op = "addUndefined" /\ log[2].StOther = STV_HIDDEN
  /\ log[3].op = "addShared" /\ log[3].StOther = STV_INTERNAL
  /\ Envelope(NameX).Visibility = STV_HIDDEN /\ Envelope(NameX).Body.kind = "Regular" /\ Envelope(NameX).Body.StOther = STV_PROTECTED

(***************************************************************************)
(* SpecCompat: files handed to addFile under three targets: x86_64 with    *)
(* and without an emulation name, and the 32-bit x86_64 emulation, for     *)
(* which every 64-bit file of the universe is of the wrong kind.           *)
(***************************************************************************)
MaxCompatOps == 4

CompatConfigs == {DefaultConfig, [DefaultConfig EXCEPT !.Emulation = "elf_x86_64"], [DefaultConfig EXCEPT !.Emulation = "elf32_x86_64", !.EKind = "ELF32LE"]}

InitCompat == InitTable(CompatConfigs, MaxCompatOps)

NextCompat ==
  \/ \E u \in UBOutcomes, F \in {"S1", "S4", "O", "MIPS", "A1", "B1"} : AddFileAct(u, F)
  \/ \E u \in UBOutcomes : AddUndefinedAct(u, NameX, STB_GLOBAL, STV_DEFAULT, STT_NOTYPE, "O")

SpecCompat == InitCompat /\ [][NextCompat]_vars

IsElfFile(F) == Files[F].kind \in {"obj", "shared"}
TargetDiffers(F) == Files[F].EKind # Config.EKind \/ Files[F].EMachine # Config.EMachine
TargetName == IF Config.Emulation = "" THEN Config.FirstElf ELSE Config.Emulation
IncompatibleMsg(F) == Msg("error", "incompatible", NoName, F, TargetName, NoName)
IncompatibleFileStep == Len(log') = Len(log) + 1 /\ LastCall.op = "addFile" /\ IsElfFile(LastFile) /\ TargetDiffers(LastFile)
FileRejected ==
  /\ Diags' = Append(Diags, IncompatibleMsg(LastFile))
  /\ UNCHANGED <<ArchiveFiles, LazyObjectFiles, SharedFiles, BitcodeFiles, ObjectFiles>>
  /\ UNCHANGED <<Symtab, SymVector, SoNames, NamesSeen, Fetched, IsUsed>>

(***************************************************************************)
(* C20: addFile given an ELF object or shared file whose kind or machine   *)
(* differs from the target reports "<file> is incompatible with <the       *)
(* emulation, or the first ELF file when no emulation is set>" and leaves  *)
(* the file lists, the symbol table and the soname set as they were.       *)
(***************************************************************************)
C20_IncompatibleFileRejected == [][IncompatibleFileStep => FileRejected]_vars

\* S1 was admitted; S4, built for mips, was rejected against the emulation.
C20_Witness ==
  /\ Config.Emulation = "elf_x86_64" /\ Len(log) = 2 /\ log[1].File = "S1" /\ log[1].op = "addFile" /\ log[2].File = "S4" /\ log[2].op = "addFile"
  /\ Diags = <<Msg("error", "incompatible", NoName, "S4", "elf_x86_64", NoName)>>
  /\ SharedFiles = <<"S1">> /\ DOMAIN Symtab = {NameX}

\* An object of the wrong class was rejected against the 32-bit emulation,
\* and a mips shared file with a soname not seen before against the first file.
C20_WitnessKind == Config.EKind = "ELF32LE" /\ Len(log) = 1 /\ log[1].File = "O" /\ Len(Diags) = 1 /\ Diags[1].kind = "incompatible" /\ ObjectFiles = << >> /\ Symtab = << >>
C20_WitnessFirstElf == Config = DefaultConfig /\ Len(log) = 1 /\ log[1].File = "S4" /\ Diags = <<Msg("error", "incompatible", NoName, "S4", "F1", NoName)>> /\ SoNames = {} /\ SharedFiles = << >>

\* Every call made for n so far was addUndefined and no archive member was
\* fetched, so its payload is Undefined.
OnlyUndefinedRefs(n) == n \in DOMAIN Symtab /\ Fetched = {} /\ \A i \in 1..Len(log) : log[i].Name = n => log[i].op = "addUndefined"
RefsTo(n) == {i \in 1..Len(log) : log[i].Name = n /\ log[i].op = "addUndefined"}
FirstRefTo(n) == CHOOSE i \in RefsTo(n) : \A j \in RefsTo(n) : i <= j

(***************************************************************************)
(* C21: while a name has received undefined references only, its envelope  *)
(* is non-weak as soon as one of the references was non-weak, in either    *)
(* order.                                                                  *)
(***************************************************************************)
C21_UndefinedTakesStrongerBinding ==
  \A n \in Names : OnlyUndefinedRefs(n) => (Envelope(n).Binding # STB_WEAK <=> \E i \in RefsTo(n) : log[i].Binding # STB_WEAK)

\* What the table does instead: the binding of the first reference stays.
C21_FirstUndefinedSetsBinding ==
  \A n \in Names : OnlyUndefinedRefs(n) => Envelope(n).Body.kind = "Undefined" /\ Envelope(n).Binding = log[FirstRefTo(n)].Binding

\* The last call brought a lazy record for x to an envelope that held
\* Undefined, after a non-weak reference to x.
LazyAfterStrongRef ==
  /\ Len(log) >= 2 /\ IsLazyCall(log[Len(log)])
  /\ \E i \in 1..(Len(log) - 1) : IsStrongRef(log[i])
  /\ NameX \in DOMAIN hist[Len(log)].Symtab /\ BodyIn(hist[Len(log)], NameX).kind = "Undefined"

(***************************************************************************)
(* C22: a lazy record for x that arrives while x is undefined and after a  *)
(* non-weak reference to x fetches the member, whatever references came    *)
(* before.                                                                 *)
(***************************************************************************)
C22_StrongRefPullsMember == LazyAfterStrongRef => Fetched # {} /\ Envelope(NameX).Body.kind = "Regular"

\* What the table does instead: the member is fetched exactly when the
\* envelope is non-weak, which is the binding of the first reference.
C22_FirstRefDecidesPull == LazyAfterStrongRef => (Envelope(NameX).Body.kind = "Regular" <=> hist[Len(log)].SymVector[hist[Len(log)].Symtab[NameX] + 1].Binding # STB_WEAK)

(***************************************************************************)
(* SpecUsed: records for x from object, bitcode, shared and lazy inputs.   *)
(***************************************************************************)
MaxUsedOps == 3

InitUsed == InitTable({DefaultConfig}, MaxUsedOps)

NextUsed ==
  \/ \E u \in UBOutcomes, b \in Bindings, F \in {"O", "B1"} : AddUndefinedAct(u, NameX, b, STV_DEFAULT, STT_NOTYPE, F)
  \/ \E u \in UBOutcomes, b \in Bindings : AddRegularAct(u, NameX, b, STV_DEFAULT, STT_NOTYPE, "F1")
  \/ AddCommonAct(NameX, 4, 4, STB_GLOBAL, STV_DEFAULT, STT_OBJECT, "F2")
  \/ \E w \in BOOLEAN : AddBitcodeAct(NameX, w, STV_DEFAULT, STT_NOTYPE, "B1")
  \/ AddSharedAct("S1", NameX, STV_DEFAULT, STT_NOTYPE)
  \/ AddSyntheticAct(NameX)
  \/ \E u \in UBOutcomes : AddLazyArchiveAct(u, "A1", 1)
  \/ \E u \in UBOutcomes : AddLazyObjectAct(u, NameX, "L1")

SpecUsed == InitUsed /\ [][NextUsed]_vars

FromBitcode(c) == c.op = "addBitcode" \/ (c.op = "addUndefined" /\ isBitcodeFile(c.File))
FromNonBitcodeInput(c) == c.Name = NameX /\ ~FromBitcode(c)
SetsUsedInRegularObj(c) == c.Name = NameX /\ ~FromBitcode(c) /\ c.op \notin {"addShared", "addLazyArchive", "addLazyObject"}
MemberFetched == Fetched # {}

(***************************************************************************)
(* C23: the used-in-regular-object flag of x is set exactly when some      *)
(* record for x was a definition, a common or a synthetic symbol, or an    *)
(* undefined reference that did not come from a bitcode file (a fetched    *)
(* member's definition included); records from bitcode files, shared       *)
(* files and lazy records do not set it.                                   *)
(***************************************************************************)
C23_UsedInRegularObj == NameX \in DOMAIN Symtab => (Envelope(NameX).IsUsedInRegularObj <=> MemberFetched \/ Positions(SetsUsedInRegularObj) # {})

\* C23 as stated: any record from a non-bitcode input sets the flag.
C23_UsedByAnyNonBitcodeInput == NameX \in DOMAIN Symtab => (Envelope(NameX).IsUsedInRegularObj <=> MemberFetched \/ Positions(FromNonBitcodeInput) # {})

\* A bitcode definition and a shared record left the flag clear; a reference
\* from an object file then set it.
C23_Witness == Len(log) = 3 /\ log[1].op = "addBitcode" /\ log[2].op = "addShared" /\ log[3].op = "addUndefined" /\ log[3].File = "O" /\ Envelope(NameX).IsUsedInRegularObj /\ ~hist[3].SymVector[1].IsUsedInRegularObj

(***************************************************************************)
(* SpecTls: records for x of TLS and non-TLS type, from every kind of      *)
(* input.                                                                  *)
(***************************************************************************)
MaxTlsOps == 3

InitTls == InitTable({DefaultConfig}, MaxTlsOps)

NextTls ==
  \/ \E u \in UBOutcomes, b \in Bindings, t \in Types : AddUndefinedAct(u, NameX, b, STV_DEFAULT, t, "O")
  \/ \E u \in UBOutcomes, t \in Types : AddRegularAct(u, NameX, STB_GLOBAL, STV_DEFAULT, t, "F1")
  \/ \E t \in Types : AddCommonAct(NameX, 4, 4, STB_GLOBAL, STV_DEFAULT, t, "F2")
  \/ \E t \in Types : AddBitcodeAct(NameX, TRUE, STV_DEFAULT, t, "B1")
  \/ \E t \in Types : AddSharedAct("S1", NameX, STV_DEFAULT, t)
  \/ AddSyntheticAct(NameX)
  \/ \E u \in UBOutcomes : AddLazyArchiveAct(u, "A1", 1)
  \/ \E u \in UBOutcomes : AddLazyObjectAct(u, NameX, "L1")

SpecTls == InitTls /\ [][NextTls]_vars

\* The step inserts a record for x; the records that carry a type; the
\* mismatch between the record and the payload the envelope holds.
InsertionStep == Len(log') = Len(log) + 1 /\ LastName = NameX
IsLazyRecord(c) == c.op \in {"addLazyArchive", "addLazyObject"}
HeldTypeKnown == NameX \in DOMAIN Symtab /\ Envelope(NameX).Body.Type # UnknownType
TlsDiffers == HeldTypeKnown /\ ((LastCall.Type = STT_TLS) # (Envelope(NameX).Body.Type = STT_TLS))
TlsMismatchMsg == Msg("error", "TLS attribute mismatch", NameX, getSourceFile(Envelope(NameX).Body), LastFile, NoName)
TlsMismatchReported == \E i \in 1..Len(NewDiags) : NewDiags[i] = TlsMismatchMsg
NoTlsMismatchReported == \A i \in 1..Len(NewDiags) : NewDiags[i].kind # "TLS attribute mismatch"
NoFetchInStep == Fetched' = Fetched

(***************************************************************************)
(* C24: an insertion other than a lazy record, on an envelope whose        *)
(* payload has a known type of the other TLS-ness, reports "TLS attribute  *)
(* mismatch" with the symbol, the file of the payload held and the file    *)
(* of the record; a lazy record, an insertion that creates the envelope    *)
(* and one of the same TLS-ness report none.                               *)
(***************************************************************************)
C24_TlsMismatchReported ==
  [][InsertionStep =>
      /\ (~IsLazyRecord(LastCall) /\ TlsDiffers) => TlsMismatchReported
      /\ ((IsLazyRecord(LastCall) \/ ~TlsDiffers) /\ NoFetchInStep) => NoTlsMismatchReported]_vars

\* C24 as stated: every insertion, a lazy record included.
C24_TlsMismatchOnEveryInsertion ==
  [][InsertionStep =>
      /\ TlsDiffers => TlsMismatchReported
      /\ (~TlsDiffers /\ NoFetchInStep) => NoTlsMismatchReported]_vars

\* A TLS definition from F1, then a non-TLS reference from O (reported),
\* then a TLS common (not reported).
C24_Witness ==
  /\ Len(log) = 3 /\ log[1].op = "addRegular" /\ log[1].Type = STT_TLS /\ log[2].op = "addUndefined" /\ log[2].Type = STT_NOTYPE /\ log[3].op = "addCommon" /\ log[3].Type = STT_TLS
  /\ DiagsOf("TLS attribute mismatch") = <<Msg("error", "TLS attribute mismatch", NameX, "F1", "O", NoName)>>

(***************************************************************************)
(* SpecShared: shared records for x from two shared files among            *)
(* definitions, references and lazy records.                               *)
(***************************************************************************)
MaxSharedOps == 3

InitShared == InitTable({DefaultConfig}, MaxSharedOps)

NextShared ==
  \/ \E F \in {"S1", "S3"} : AddSharedAct(F, NameX, STV_DEFAULT, STT_NOTYPE)
  \/ \E u \in UBOutcomes, b \in Bindings : AddUndefinedAct(u, NameX, b, STV_DEFAULT, STT_NOTYPE, "O")
  \/ \E u \in UBOutcomes, b \in Bindings : AddRegularAct(u, NameX, b, STV_DEFAULT, STT_NOTYPE, "F1")
  \/ \E b \in Bindings : AddCommonAct(NameX, 4, 4, b, STV_DEFAULT, STT_OBJECT, "F2")
  \/ \E w \in BOOLEAN : AddBitcodeAct(NameX, w, STV_DEFAULT, STT_NOTYPE, "B1")
  \/ AddSyntheticAct(NameX)
  \/ \E u \in UBOutcomes : AddLazyArchiveAct(u, "A1", 1)
  \/ \E u \in UBOutcomes : AddLazyObjectAct(u, NameX, "L1")

SpecShared == InitShared /\ [][NextShared]_vars

IsDefinitionCall(c) == c.op \in {"addRegular", "addCommon", "addBitcode", "addSynthetic", "addAbsolute"}
SharedBodyOfCall(c) == MkBody("Shared", c.Name, c.File, NoFile, c.Type, c.StOther, 0, 0)
HoldsKind(kinds) == NameX \in DOMAIN Symtab /\ Envelope(NameX).Body.kind \in kinds
BodyAfter == SymVector'[Symtab'[NameX] + 1].Body
BodyKept == BodyAfter = Envelope(NameX).Body

(***************************************************************************)
(* C25: a Shared record becomes the payload when the envelope is new or    *)
(* holds Undefined and is dropped otherwise (a definition, a lazy record   *)
(* and an earlier Shared record stay); a Shared payload is replaced by     *)
(* every weak or strong definition and kept by an undefined reference and  *)
(* by a lazy record.                                                       *)
(***************************************************************************)
C25_SharedPrecedence ==
  [][InsertionStep =>
      /\ (LastCall.op = "addShared" /\ (NameX \notin DOMAIN Symtab \/ HoldsKind({"Undefined"}))) => BodyAfter = SharedBodyOfCall(LastCall)
      /\ (LastCall.op = "addShared" /\ NameX \in DOMAIN Symtab /\ ~HoldsKind({"Undefined"})) => BodyKept
      /\ (HoldsKind({"Shared"}) /\ IsDefinitionCall(LastCall)) => BodyAfter = BodyOfCall(LastCall)
      /\ (HoldsKind({"Shared"}) /\ (LastCall.op = "addUndefined" \/ IsLazyRecord(LastCall))) => BodyKept]_vars

\* S1's record came first and stayed when S3's arrived; a weak definition
\* then replaced it.
C25_Witness ==
  /\ Len(log) = 3 /\ log[1].op = "addShared" /\ log[1].File = "S1" /\ log[2].op = "addShared" /\ log[2].File = "S3"
  /\ log[3].op = "addRegular" /\ log[3].Binding = STB_WEAK
  /\ hist[3].SymVector[1].Body.kind = "Shared" /\ hist[3].SymVector[1].Body.File = "S1"
  /\ Envelope(NameX).Body.kind = "Regular"

\* A Shared record arrived on a lazy record and on a weak definition and was dropped.
C25_WitnessDropped == Len(log) = 2 /\ log[1].op \in {"addLazyArchive", "addBitcode"} /\ log[2].op = "addShared" /\ Envelope(NameX).Body.kind \in {"LazyArchive", "Bitcode"}

\* x received exactly one Common record and one Regular definition.
CommonAndDef == Len(log) = 2 /\ Cardinality(Positions(IsCommonCall)) = 1 /\ \E i \in 1..2 : log[i].op = "addRegular" /\ log[i].Name = NameX
TheCommon == log[CHOOSE i \in 1..2 : log[i].op = "addCommon"]
TheDef == log[CHOOSE i \in 1..2 : log[i].op = "addRegular"]
DefWon == Envelope(NameX).Body = BodyOfCall(TheDef) /\ DiagsOf("duplicate symbol") = << >> /\ (DiagsOf("common is overridden") # << >> => Config.WarnCommon)
CommonWon == Envelope(NameX).Body = BodyOfCall(TheCommon)

(***************************************************************************)
(* C26: between a Common record and a Regular definition, in either order, *)
(* a strong definition is the final payload, with no duplicate-symbol      *)
(* diagnostic and the overridden warning only under warn-common; a weak    *)
(* definition loses to a non-weak Common; between a weak definition and a  *)
(* weak Common the one inserted first stays.                               *)
(***************************************************************************)
C26_CommonAgainstDefinition ==
  CommonAndDef =>
    /\ TheDef.Binding # STB_WEAK => DefWon
    /\ (TheDef.Binding = STB_WEAK /\ TheCommon.Binding # STB_WEAK) => CommonWon
    /\ (TheDef.Binding = STB_WEAK /\ TheCommon.Binding = STB_WEAK) => Envelope(NameX).Body = BodyOfCall(log[1])

\* C26 as stated: a weak definition loses to every Common.
C26_WeakDefinitionAlwaysLoses ==
  CommonAndDef =>
    /\ TheDef.Binding # STB_WEAK => DefWon
    /\ TheDef.Binding = STB_WEAK => CommonWon

\* A strong definition replaced a strong Common under warn-common, with the warning.
C26_Witness == CommonAndDef /\ Config.WarnCommon /\ log[1].op = "addCommon" /\ TheCommon.Binding # STB_WEAK /\ TheDef.Binding # STB_WEAK /\ Envelope(NameX).Body.kind = "Regular" /\ Len(DiagsOf("common is overridden")) = 1

\* A strong Common arrived on a weak definition and replaced it.
C26_WitnessWeakDefinition == CommonAndDef /\ log[1].op = "addRegular" /\ TheDef.Binding = STB_WEAK /\ TheCommon.Binding # STB_WEAK /\ Envelope(NameX).Body.kind = "Common"

(***************************************************************************)
(* --dynamic-list.                                                         *)
(***************************************************************************)
\* scanDynamicList marking every envelope of the table.
scanDynamicListEverySymbol(T) == IF T.Crashed THEN T ELSE [T EXCEPT !.SymVector = [i \in DOMAIN @ |-> [@[i] EXCEPT !.ExportDynamic = TRUE]]]

\* SymbolTable::scanDynamicList: every listed name that find() returns.
scanDynamicList(T) ==
  IF T.Crashed THEN T
  ELSE [T EXCEPT !.SymVector = [i \in DOMAIN @ |-> IF \E k \in 1..Len(Config.DynamicList) : find(T, Config.DynamicList[k]) /\ T.Symtab[Config.DynamicList[k]] = i - 1 THEN [@[i] EXCEPT !.ExportDynamic = TRUE] ELSE @[i]]]

ScanDynamicListAct == Step(scanDynamicList(Table), Call("scanDynamicList", NoName, 0, NoFile, 0, 0, 0, 0))

(***************************************************************************)
(* SpecDyn: x and y defined, referred to, shared or lazy, and the pass     *)
(* for a dynamic list that names x.                                        *)
(***************************************************************************)
MaxDynOps == 3

InitDyn == InitTable({[DefaultConfig EXCEPT !.DynamicList = <<NameX>>]}, MaxDynOps)

NextDyn ==
  \/ \E u \in UBOutcomes, n \in Names : AddRegularAct(u, n, STB_GLOBAL, STV_DEFAULT, STT_NOTYPE, "F1")
  \/ \E u \in UBOutcomes, n \in Names, b \in Bindings : AddUndefinedAct(u, n, b, STV_DEFAULT, STT_NOTYPE, "O")
  \/ \E n \in Names, v \in {STV_DEFAULT, STV_HIDDEN} : AddSharedAct("S1", n, v, STT_NOTYPE)
  \/ \E u \in UBOutcomes, i \in 1..2 : AddLazyArchiveAct(u, "A1", i)
  \/ ScanDynamicListAct

SpecDyn == InitDyn /\ [][NextDyn]_vars

Listed(n) == \E k \in 1..Len(Config.DynamicList) : Config.DynamicList[k] = n
DynamicListStep == Len(log') = Len(log) + 1 /\ LastCall.op = "scanDynamicList"
IndexKept == Symtab' = Symtab /\ Len(SymVector') = Len(SymVector) /\ UNCHANGED <<Diags, Fetched, IsUsed, SoNames, ObjectFiles>>
Marked(n) == SymVector'[Symtab[n] + 1] = [Envelope(n) EXCEPT !.ExportDynamic = TRUE]
Untouched(n) == SymVector'[Symtab[n] + 1] = Envelope(n)

(***************************************************************************)
(* C27: scanDynamicList sets export-dynamic on the envelope of every       *)
(* listed name the index holds, whatever its payload (a definition, a      *)
(* shared or lazy record, or an undefined reference); it creates no        *)
(* envelope and changes nothing else.                                      *)
(***************************************************************************)
C27_DynamicListMarksListed == [][DynamicListStep => IndexKept /\ \A n \in DOMAIN Symtab : IF Listed(n) THEN Marked(n) ELSE Untouched(n)]_vars

\* C27 as stated: only listed names that hold a defined record are marked.
C27_DynamicListMarksDefinedOnly == [][DynamicListStep => IndexKept /\ \A n \in DOMAIN Symtab : IF Listed(n) /\ isDefined(Envelope(n).Body) THEN Marked(n) ELSE Untouched(n)]_vars

\* x, defined and listed, was marked; y, defined and not listed, was not.
C27_Witness ==
  /\ Len(log) = 3 /\ log[3].op = "scanDynamicList" /\ {NameX, NameY} \subseteq DOMAIN Symtab
  /\ Envelope(NameX).Body.kind = "Regular" /\ Envelope(NameX).ExportDynamic /\ ~hist[3].SymVector[hist[3].Symtab[NameX] + 1].ExportDynamic
  /\ Envelope(NameY).Body.kind = "Regular" /\ ~Envelope(NameY).ExportDynamic

\* x, listed and only referred to, was marked.
C27_WitnessUndefined == Len(log) = 2 /\ log[2].op = "scanDynamicList" /\ NameX \in DOMAIN Symtab /\ Envelope(NameX).Body.kind = "Undefined" /\ Envelope(NameX).ExportDynamic /\ ~hist[2].SymVector[1].ExportDynamic

(***************************************************************************)
(* Link-time optimization.  BitcodeCompiler (LTO.cpp) is a collaborator:   *)
(* add() hands the table's Bitcode definitions over to the compiler,       *)
(* leaving a reference in their envelopes, and compile() returns one       *)
(* native object that defines them (or none of them, when Defines is       *)
(* FALSE and all were dropped).                                            *)
(***************************************************************************)
LtoObject == "lto.o"

\* BitcodeCompiler::add for every bitcode file: each Bitcode payload becomes
\* an undefined reference of the same name and type.
ltoAdd(T) == [T EXCEPT !.SymVector = [i \in DOMAIN @ |-> IF @[i].Body.kind = "Bitcode" THEN [@[i] EXCEPT !.Body = MkBody("Undefined", @.Name, NoFile, NoFile, @.Type, STV_DEFAULT, 0, 0)] ELSE @[i]]]

\* The envelopes (0-based) whose Bitcode definitions the compiler was given.
BitcodeHeld(T) == {i - 1 : i \in {j \in DOMAIN T.SymVector : T.SymVector[j].Body.kind = "Bitcode"}}

\* Obj->parse(DummyGroups) for the native object: a Regular definition for
\* each of the names in Defs, in index order; T0 is the table before add().
RECURSIVE parseLtoObject(_, _, _, _)
parseLtoObject(T, T0, Defs, S) ==
  IF S >= Len(T0.SymVector) THEN T
  ELSE IF S \in Defs THEN parseLtoObject(addRegular(T, body(T0, S).Name, ESymOf(Sym(T0, S).Binding, body(T0, S).Type, body(T0, S).StOther, 0), LtoObject), T0, Defs, S + 1)
  ELSE parseLtoObject(T, T0, Defs, S + 1)

registerLtoObject(T) == IF T.Crashed THEN T ELSE [T EXCEPT !.ObjectFiles = Append(@, LtoObject)]

\* addCombinedLtoObject without the early return for a link without bitcode files.
addCombinedLtoObjectAlways(T, Defines) ==
  IF T.Crashed THEN T
  ELSE registerLtoObject(parseLtoObject(ltoAdd(T), T, IF Defines THEN BitcodeHeld(T) ELSE {}, 0))

\* SymbolTable::addCombinedLtoObject.
addCombinedLtoObject(T, Defines) ==
  IF T.Crashed THEN T
  ELSE IF T.BitcodeFiles = << >> THEN T
  ELSE registerLtoObject(parseLtoObject(ltoAdd(T), T, IF Defines THEN BitcodeHeld(T) ELSE {}, 0))

\* The driver calls addCombinedLtoObject once, after the input files.
AddCombinedLtoObjectAct(Defines) ==
  /\ \A i \in 1..Len(log) : log[i].op # "addCombinedLtoObject"
  /\ Step(addCombinedLtoObject(Table, Defines), Call("addCombinedLtoObject", NoName, 0, LtoObject, 0, 0, IF Defines THEN Cardinality(BitcodeHeld(Table)) ELSE 0, 0))

(***************************************************************************)
(* SpecLto: object, bitcode, shared and archive files, then the combined   *)
(* LTO object.                                                             *)
(***************************************************************************)
MaxLtoOps == 4

InitLto == InitTable({DefaultConfig}, MaxLtoOps)

NextLto ==
  \/ \E u \in UBOutcomes, F \in {"B1", "F1", "F2", "O", "S1", "A1"} : AddFileAct(u, F)
  \/ \E d \in BOOLEAN : AddCombinedLtoObjectAct(d)

SpecLto == InitLto /\ [][NextLto]_vars

LtoStep == Len(log') = Len(log) + 1 /\ LastCall.op = "addCombinedLtoObject"
HeldBitcode(n) == n \in DOMAIN Symtab /\ Envelope(n).Body.kind = "Bitcode"
\* The call records, as Size, how many symbols the native object defines.
DefinedByLto(n) == HeldBitcode(n) /\ LastCall.Size > 0
ReplacedByLto(n) == SymVector'[Symtab'[n] + 1].Body.kind \in {"Regular", "Common"} /\ SymVector'[Symtab'[n] + 1].Body.File = LtoObject
NoNewDuplicate == \A i \in 1..Len(NewDiags) : NewDiags[i].kind # "duplicate symbol"
TableKept == UNCHANGED <<Symtab, SymVector, Diags, ObjectFiles, BitcodeFiles, SharedFiles, ArchiveFiles, LazyObjectFiles, SoNames, Fetched, IsUsed>>

C28_WitnessNoBitcode == Len(log) = 2 /\ log[1].File = "F1" /\ log[2].op = "addCombinedLtoObject" /\ ObjectFiles = <<"F1">>

WrapStep == Len(log') = Len(log) + 1 /\ IsWrapCall(LastCall) /\ ~Crashed'
WrapNamesExist == {RealX, WrapX} \subseteq DOMAIN Symtab'

(***************************************************************************)
(* C29: wrap(x) on a table that holds x leaves envelopes for __real_x and  *)
(* __wrap_x in the index, __wrap_x as an undefined reference if it was     *)
(* absent; on a table that does not hold x it does nothing.                *)
(***************************************************************************)
C29_WrapIntroducesNames ==
  [][WrapStep =>
      IF NameX \in DOMAIN Symtab
        THEN WrapNamesExist /\ (WrapX \notin DOMAIN Symtab => SymVector'[Symtab'[WrapX] + 1].Body.kind = "Undefined")
        ELSE Symtab' = Symtab /\ SymVector' = SymVector /\ Diags' = Diags]_vars

\* C29 as stated: whatever the state of the table.
C29_WrapAlwaysIntroducesNames == [][WrapStep => WrapNamesExist]_vars

\* x was defined, neither __real_x nor __wrap_x was known, and wrap(x)
\* created both.
C29_Witness == Len(log) = 2 /\ log[1].op = "addRegular" /\ log[1].Name = NameX /\ IsWrapCall(log[2]) /\ DOMAIN hist[2].Symtab = {NameX} /\ DOMAIN Symtab = {NameX, RealX, WrapX} /\ Envelope(WrapX).Body.kind = "Undefined"

\* wrap(x) on the empty table.
C29_WitnessAbsent == Len(log) = 1 /\ IsWrapCall(log[1]) /\ Symtab = << >>

DefinitionKinds == {"Regular", "Common", "Synthetic", "Bitcode"}
HoldsDefinition(n) == n \in DOMAIN Symtab /\ SymVector[Symtab[n] + 1].Body.kind \in DefinitionKinds
HoldsDefinitionAfter(n) == n \in DOMAIN Symtab' /\ SymVector'[Symtab'[n] + 1].Body.kind \in DefinitionKinds
InsertionFor(n) == Len(log') = Len(log) + 1 /\ LastName = n /\ LastCall.op \in InsertionOps
NonDefinitionOps == {"addUndefined", "addShared", "addLazyArchive", "addLazyObject"}

(***************************************************************************)
(* C30: once the payload of an envelope is a definition (Regular, Common,  *)
(* Synthetic or Bitcode), every insertion leaves it a definition, and an   *)
(* insertion for that name fetches no archive member or lazy object.       *)
(***************************************************************************)
C30_DefinitionsNeverDowngraded ==
  [][\A n \in Names : HoldsDefinition(n) => HoldsDefinitionAfter(n) /\ (InsertionFor(n) => NoFetchInStep)]_vars

\* x was defined by the first call; a lazy record and then a non-weak
\* undefined reference for x followed, x still holds the definition and
\* nothing was fetched.
C30_Witness ==
  /\ Len(log) = 3 /\ ~Crashed
  /\ IsDefinitionCall(log[1]) /\ \A i \in 1..3 : log[i].Name = NameX
  /\ log[2].op = "addLazyObject"
  /\ log[3].op = "addUndefined" /\ log[3].Binding = STB_GLOBAL
  /\ Envelope(NameX).Body.kind \in DefinitionKinds
  /\ Fetched = {}

\* The same with a shared record and a lazy archive record after a weak
\* definition.
C30_WitnessWeakDefinition ==
  /\ Len(log) = 3 /\ ~Crashed
  /\ IsDefinitionCall(log[1]) /\ log[1].Binding = STB_WEAK /\ \A i \in 1..3 : log[i].Name = NameX
  /\ {log[2].op, log[3].op} = {"addShared", "addLazyArchive"}
  /\ {log[2].op, log[3].op} \subseteq NonDefinitionOps
  /\ Envelope(NameX).Body.kind \in DefinitionKinds
  /\ Fetched = {}

(***************************************************************************)
(* The driver adding archives, a lazy object and an object file whose      *)
(* members refer to each other, with references made before or after.      *)
(***************************************************************************)
MaxFetchOps == 4

InitFetch == InitTable({DefaultConfig}, MaxFetchOps)

NextFetch ==
  \/ \E u \in UBOutcomes, n \in Names, b \in Bindings : AddUndefinedAct(u, n, b, STV_DEFAULT, STT_NOTYPE, "O")
  \/ \E u \in UBOutcomes, F \in {"A3", "AM", "L1", "O"} : AddFileAct(u, F)

SpecFetch == InitFetch /\ [][NextFetch]_vars

Members == {"M3", "M4", "MIPS", "L1.o"}
Occurrences(s, e) == Cardinality({i \in 1..Len(s) : s[i] = e})
IsTopObject(c) == c.op = "addFile" /\ Files[c.File].kind = "obj"
CallStep == Len(log') = Len(log) + 1 /\ ~Crashed'
Rejections(D) == Len(SelectSeq(D, LAMBDA d : d.kind = "incompatible"))
\* addFile invocations nested in the step: each one registers an object
\* file or reports it incompatible.
NestedAdmissions == (Len(ObjectFiles') - Len(ObjectFiles)) + (Rejections(Diags') - Rejections(Diags)) - (IF IsTopObject(LastCall) THEN 1 ELSE 0)

C31_WitnessRejectedMember ==
  /\ Len(log) = 3 /\ ~Crashed
  /\ log[3].op = "addFile" /\ log[3].File = "AM"
  /\ \A i \in 1..2 : log[i].op = "addUndefined" /\ log[i].Binding = STB_GLOBAL
  /\ {log[1].Name, log[2].Name} = Names
  /\ Fetched = {"MIPS"}
  /\ Rejections(Diags) = 1
  /\ ObjectFiles = << >>

====
